---------------------------- MODULE Spec2Model ----------------------------
(***************************************************************************)
(* Resamania automated booking: the booking run (src/src/main.ts), the     *)
(* slot booker (booker.ts, src/unnamed/part_000 lines 683-992), the date   *)
(* utilities (utils.ts, src/unnamed/part_003 lines 402-559), the session   *)
(* handler (src/src/auth.ts) and the scheduler (src/src/scheduler.ts).     *)
(*                                                                         *)
(* Instants are seconds since 1 January 2026, 00:00 local time.            *)
(* Texts read from the page are sequences of tokens (a day name, a month   *)
(* name, a number, white space, any other word); names are sequences of    *)
(* characters.                                                             *)
(***************************************************************************)
EXTENDS Integers, Sequences, FiniteSets, TLC

(***************************************************************************)
(* Bounds of the model.                                                    *)
(***************************************************************************)
\* run(maxRetries) is explored for maxRetries in 1..MaxBudget and for the
\* two budgets the program itself uses (1 and 15).
MaxBudget == 3
\* Number of cards a page of the site shows.
MaxCards == 2

(***************************************************************************)
(* Program constants.                                                      *)
(***************************************************************************)
DEFAULT_MAX_RETRIES == 15
DAILY_RETRIES == 15
HOURLY_RETRIES == 1
STARTUP_RETRIES == 1
MAX_ACTIVITIES == 50
DEFAULT_MIN_HOURS == 6
DEFAULT_MAX_DAYS == 4

(***************************************************************************)
(* Tokens of a text.                                                       *)
(***************************************************************************)
Tok(k, n, len, s) == [k |-> k, n |-> n, len |-> len, s |-> s]
\* a day name (n = 1 for Monday .. 7 for Sunday) or a month name (n = 1..12),
\* written in the letter case `form`: "Cap", "lower" or "UPPER"
DayTok(n, form) == Tok("day", n, 0, form)
MonthTok(n, form) == Tok("month", n, 0, form)
\* a run of digits: its value, and its number of digits
NumTok(v, digits) == Tok("num", v, digits, "")
\* white space: " " one space, "  " two spaces, "\n" a line break
WsTok(s) == Tok("ws", 0, 0, s)
WordTok(s) == Tok("word", 0, 0, s)
COLON == WordTok(":")
SP == WsTok(" ")
NL == WsTok("\n")
UnknownText == << WordTok("Unknown") >>

days == << "Monday", "Tuesday", "Wednesday", "Thursday", "Friday", "Saturday", "Sunday" >>

IsWs(t) == t.k = "ws"

\* index of the first token at or after i that is not white space
RECURSIVE SkipWs(_, _)
SkipWs(text, i) ==
    IF i <= Len(text) /\ IsWs(text[i]) THEN SkipWs(text, i + 1) ELSE i

(***************************************************************************)
(* Calendar: new Date(year, month, day, hour, minute, 0, 0) in local time, *)
(* month counted from 0, out-of-range days carried over as Date does.      *)
(***************************************************************************)
IsLeap(y) == (y % 4 = 0 /\ y % 100 # 0) \/ y % 400 = 0

DaysInMonth(y, m0) ==
    CASE m0 = 1 -> IF IsLeap(y) THEN 29 ELSE 28
      [] m0 \in {3, 5, 8, 10} -> 30
      [] OTHER -> 31

RECURSIVE DaysBeforeMonth(_, _)
DaysBeforeMonth(y, m0) ==
    IF m0 = 0 THEN 0 ELSE DaysBeforeMonth(y, m0 - 1) + DaysInMonth(y, m0 - 1)

RECURSIVE DaysBeforeYear(_)
DaysBeforeYear(y) ==
    IF y <= 2026 THEN 0
    ELSE DaysBeforeYear(y - 1) + (IF IsLeap(y - 1) THEN 366 ELSE 365)

MakeDate(y, m0, d, h, mi) ==
    (((DaysBeforeYear(y) + DaysBeforeMonth(y, m0) + d - 1) * 24 + h) * 60 + mi) * 60

\* Date.getFullYear of an instant
RECURSIVE YearFrom(_, _)
YearFrom(t, y) ==
    IF t < MakeDate(y + 1, 0, 1, 0, 0) THEN y ELSE YearFrom(t, y + 1)
GetFullYear(t) == YearFrom(t, 2026)

(***************************************************************************)
(* String helpers: split, trim, Number, toLowerCase, includes.             *)
(***************************************************************************)
\* a text with every two-space token written as two one-space tokens
RECURSIVE Expand(_)
Expand(text) ==
    IF text = << >> THEN << >>
    ELSE (IF Head(text) = WsTok("  ") THEN << SP, SP >> ELSE << Head(text) >>)
         \o Expand(Tail(text))

\* String.split(sep) for a one-token separator
RECURSIVE SplitAt(_, _)
SplitAt(text, sep) ==
    IF \A i \in 1..Len(text) : text[i] # sep THEN << text >>
    ELSE LET i == CHOOSE k \in 1..Len(text) :
                      text[k] = sep /\ \A j \in 1..(k - 1) : text[j] # sep
         IN << SubSeq(text, 1, i - 1) >> \o SplitAt(SubSeq(text, i + 1, Len(text)), sep)

\* String.trim() of a token text
RECURSIVE TrimText(_)
TrimText(text) ==
    IF text # << >> /\ IsWs(Head(text)) THEN TrimText(Tail(text))
    ELSE IF text # << >> /\ IsWs(text[Len(text)])
         THEN TrimText(SubSeq(text, 1, Len(text) - 1))
         ELSE text

\* String.trim() of a name
RECURSIVE TrimName(_)
TrimName(name) ==
    IF name # << >> /\ Head(name) = " " THEN TrimName(Tail(name))
    ELSE IF name # << >> /\ name[Len(name)] = " "
         THEN TrimName(SubSeq(name, 1, Len(name) - 1))
         ELSE name

\* Number(str): white space around the digits is ignored, "" is 0, anything
\* else (undefined included) is NaN
NumberIsNaN(part) ==
    LET t == TrimText(part)
    IN ~(t = << >> \/ (Len(t) = 1 /\ t[1].k = "num"))
NumberOf(part) ==
    LET t == TrimText(part) IN IF t = << >> THEN 0 ELSE t[1].n

LowerChar(c) ==
    CASE c = "A" -> "a" [] c = "B" -> "b" [] c = "C" -> "c" [] c = "D" -> "d" [] c = "E" -> "e"
      [] c = "F" -> "f" [] c = "G" -> "g" [] c = "H" -> "h" [] c = "I" -> "i" [] c = "J" -> "j"
      [] c = "K" -> "k" [] c = "L" -> "l" [] c = "M" -> "m" [] c = "N" -> "n" [] c = "O" -> "o"
      [] c = "P" -> "p" [] c = "Q" -> "q" [] c = "R" -> "r" [] c = "S" -> "s" [] c = "T" -> "t"
      [] c = "U" -> "u" [] c = "V" -> "v" [] c = "W" -> "w" [] c = "X" -> "x" [] c = "Y" -> "y"
      [] c = "Z" -> "z"
      [] OTHER -> c
ToLowerCase(name) == [i \in 1..Len(name) |-> LowerChar(name[i])]

\* String.includes
Includes(name, part) ==
    \E i \in 0..(Len(name) - Len(part)) :
        \A j \in 1..Len(part) : name[i + j] = part[j]

(***************************************************************************)
(* utils.ts                                                                *)
(***************************************************************************)
Threw == [threw |-> TRUE, at |-> 0]
Returned(t) == [threw |-> FALSE, at |-> t]

\* parseSlotDateTime(dateStr, timeStr), with `now` the clock it reads
parseSlotDateTime(dateStr, timeStr, now) ==
    LET parts == SplitAt(Expand(dateStr), SP)
        tparts == SplitAt(timeStr, COLON)
    IN IF Len(parts) < 3 THEN Threw                \* monthStr is undefined
       ELSE LET monthStr == parts[3]
                dayStr == parts[2]
            IN IF ~(Len(monthStr) = 1 /\ monthStr[1].k = "month") THEN Threw
               ELSE IF NumberIsNaN(dayStr) THEN Threw
               ELSE IF NumberIsNaN(tparts[1]) \/ Len(tparts) < 2 THEN Threw
               ELSE IF NumberIsNaN(tparts[2]) THEN Threw
               ELSE LET month == monthStr[1].n - 1
                        day == NumberOf(dayStr)
                        hour == NumberOf(tparts[1])
                        minute == NumberOf(tparts[2])
                        currentYear == GetFullYear(now)
                        target == MakeDate(currentYear, month, day, hour, minute)
                    IN IF target < now
                       THEN Returned(MakeDate(currentYear + 1, month, day, hour, minute))
                       ELSE Returned(target)

\* the pattern (Day)\s+(\d{1,2})\s+(Month), flag i, matches from token i;
\* the result is the index of its last token, 0 when it does not match
DateMatchEnd(text, i) ==
    LET j == SkipWs(text, i + 1)
        k == SkipWs(text, j + 1)
    IN IF /\ text[i].k = "day"
          /\ j > i + 1 /\ j <= Len(text) /\ text[j].k = "num" /\ text[j].len <= 2
          /\ k > j + 1 /\ k <= Len(text) /\ text[k].k = "month"
       THEN k ELSE 0

extractDateFromCardText(cardText) ==
    LET starts == {i \in 1..Len(cardText) : DateMatchEnd(cardText, i) # 0}
    IN IF starts # {}
       THEN LET i == CHOOSE s \in starts : \A o \in starts : s <= o
            IN SubSeq(cardText, i, DateMatchEnd(cardText, i))
       ELSE UnknownText

\* the pattern <day>\s+\d{1,2}, flag i, matches somewhere in the text
DayDigitsTest(text, d) ==
    \E i \in 1..Len(text) :
        LET j == SkipWs(text, i + 1)
        IN /\ text[i].k = "day" /\ text[i].n = d
           /\ j > i + 1 /\ j <= Len(text) /\ text[j].k = "num"

extractDayOfWeekFromCardText(cardText) ==
    LET adj == {d \in 1..7 : DayDigitsTest(cardText, d)}
        sub == {d \in 1..7 : \E i \in 1..Len(cardText) :
                                  cardText[i].k = "day" /\ cardText[i].n = d}
    IN IF adj # {} THEN days[CHOOSE d \in adj : \A o \in adj : d <= o]
       ELSE IF sub # {} THEN days[CHOOSE d \in sub : \A o \in sub : d <= o]
       ELSE "Unknown"

\* the window taken as an open interval
meetsTimeConstraintsOpen(slotDate, minHours, maxDays, now) ==
    IF slotDate = << >> THEN FALSE
    ELSE slotDate[1] > now + minHours * 60 * 60
         /\ slotDate[1] < now + maxDays * 24 * 60 * 60

\* the upper end of the window left out
meetsTimeConstraintsOpenAbove(slotDate, minHours, maxDays, now) ==
    IF slotDate = << >> THEN FALSE
    ELSE slotDate[1] >= now + minHours * 60 * 60
         /\ slotDate[1] < now + maxDays * 24 * 60 * 60

\* lines 525-539
meetsTimeConstraints(slotDate, minHours, maxDays, now) ==
    IF slotDate = << >> THEN FALSE
    ELSE LET minTime == now + minHours * 60 * 60
             maxTime == now + maxDays * 24 * 60 * 60
         IN slotDate[1] >= minTime /\ slotDate[1] <= maxTime

(***************************************************************************)
(* booker.ts: ResamaniaSlotBooker                                          *)
(*                                                                         *)
(* A card of the page: its h3 and h5 headings (when present), its full     *)
(* text, whether it holds a Book button, and whether reading it throws     *)
(* (an element detached from the page).  A card handle is [attempt, idx]:  *)
(* the card at position idx of the page as listed in that attempt.         *)
(***************************************************************************)
Status(s, n) == [s |-> s, n |-> n]

HasWord(cardText, w) == \E i \in 1..Len(cardText) : cardText[i] = WordTok(w)

\* the pattern (\d+)\s+remaining place matches from token i
RemainingMatchAt(cardText, i) ==
    LET j == SkipWs(cardText, i + 1)
    IN /\ cardText[i].k = "num"
       /\ j > i + 1 /\ j <= Len(cardText)
       /\ cardText[j] \in {WordTok("remaining place"), WordTok("remaining places")}

\* the chain with the test for Full before the test for Signed up
statusTextFullFirst(cardText) ==
    LET rem == {i \in 1..Len(cardText) : RemainingMatchAt(cardText, i)}
    IN IF HasWord(cardText, "Full") THEN Status("Full", 0)
       ELSE IF HasWord(cardText, "Signed up") THEN Status("Signed up", 0)
       ELSE IF HasWord(cardText, "waiting list") THEN Status("On waiting list", 0)
       ELSE IF rem # {}
            THEN Status("remaining places",
                        cardText[CHOOSE i \in rem : \A o \in rem : i <= o].n)
            ELSE Status("Available", 0)

\* lines 780-791 of listSlots
statusText(cardText) ==
    LET rem == {i \in 1..Len(cardText) : RemainingMatchAt(cardText, i)}
    IN IF HasWord(cardText, "Signed up") THEN Status("Signed up", 0)
       ELSE IF HasWord(cardText, "Full") THEN Status("Full", 0)
       ELSE IF HasWord(cardText, "waiting list") THEN Status("On waiting list", 0)
       ELSE IF rem # {}
            THEN Status("remaining places",
                        cardText[CHOOSE i \in rem : \A o \in rem : i <= o].n)
            ELSE Status("Available", 0)

\* the body of the loop of listSlots for one card: the slot it pushes, or
\* << >> when the card is skipped (no h3, or an error caught at line 818)
CardSlot(card, handle, now) ==
    IF card.detached THEN << >>
    ELSE IF ~card.hasH3 THEN << >>
    ELSE LET activityName == TrimName(card.h3)
             classTime == IF card.hasH5 THEN TrimText(card.h5) ELSE UnknownText
             dateText == extractDateFromCardText(card.text)
             dayOfWeek == extractDayOfWeekFromCardText(card.text)
             slotDate == parseSlotDateTime(dateText, classTime, now)
         IN IF slotDate.threw THEN << >>
            ELSE << [activity_name |-> activityName,
                     date |-> dateText,
                     time |-> classTime,
                     day_of_week |-> dayOfWeek,
                     status |-> statusText(card.text),
                     is_available |-> card.book,
                     card_element |-> handle,
                     at |-> << slotDate.at >>] >>

Min(a, b) == IF a <= b THEN a ELSE b

\* the loop left at the first card that is skipped
RECURSIVE SlotsFromAborting(_, _, _, _)
SlotsFromAborting(cards, i, attempt, now) ==
    IF i > Min(Len(cards), MAX_ACTIVITIES) THEN << >>
    ELSE LET slot == CardSlot(cards[i], [attempt |-> attempt, idx |-> i], now)
         IN IF slot = << >> THEN << >>
            ELSE slot \o SlotsFromAborting(cards, i + 1, attempt, now)

\* the loop without the cap of MAX_ACTIVITIES cards
RECURSIVE SlotsFromUncapped(_, _, _, _)
SlotsFromUncapped(cards, i, attempt, now) ==
    IF i > Len(cards) THEN << >>
    ELSE CardSlot(cards[i], [attempt |-> attempt, idx |-> i], now)
         \o SlotsFromUncapped(cards, i + 1, attempt, now)

\* lines 760-822 of listSlots: the loop over the cards, from card i
RECURSIVE SlotsFrom(_, _, _, _)
SlotsFrom(cards, i, attempt, now) ==
    IF i > Min(Len(cards), MAX_ACTIVITIES) THEN << >>
    ELSE CardSlot(cards[i], [attempt |-> attempt, idx |-> i], now)
         \o SlotsFrom(cards, i + 1, attempt, now)

\* listSlots(page) called in attempt number `attempt`: the slots of the
\* cards the page shows
listSlots(cards, attempt, now) == SlotsFrom(cards, 1, attempt, now)

\* the match without the comparison of the days
TargetMatchesAnyDay(target, slot) ==
    /\ target.time = slot.time
    /\ Includes(ToLowerCase(slot.activity_name), ToLowerCase(target.activity))

\* lines 956-960 of matchesTargetClass
TargetMatches(target, slot) ==
    /\ target.day = slot.day_of_week
    /\ target.time = slot.time
    /\ Includes(ToLowerCase(slot.activity_name), ToLowerCase(target.activity))

matchesTargetClass(slot, targetClasses) ==
    \E i \in 1..Len(targetClasses) :
        targetClasses[i].enabled /\ TargetMatches(targetClasses[i], slot)

\* a slot with no instant taken for a slot inside the window
slotMeetsTimeConstraintsUnresolvedIn(slot, settings, now) ==
    IF slot.at = << >> THEN TRUE
    ELSE meetsTimeConstraints(slot.at, settings.minHoursFromNow,
                              settings.maxDaysFromNow, now)
\* lines 971-991 of booker.ts: the slot has an instant and it is in the window
slotMeetsTimeConstraints(slot, settings, now) ==
    IF slot.at = << >> THEN FALSE
    ELSE meetsTimeConstraints(slot.at, settings.minHoursFromNow,
                              settings.maxDaysFromNow, now)

filterMatchingSlots(allSlots, targetClasses, settings, now) ==
    LET Matches(slot) == matchesTargetClass(slot, targetClasses)
        InWindow(slot) == slotMeetsTimeConstraints(slot, settings, now)
    IN SelectSeq(SelectSeq(allSlots, Matches), InWindow)

\* the skip without the test of lines 878-881 for a Full slot
SkipsUnavailableOnly(slot) == ~slot.is_available
\* no slot skipped
SkipsNothing(slot) == FALSE
\* lines 872-881 of bookSlots: the slot is skipped, no booking is tried
SkipsSlot(slot) == ~slot.is_available \/ slot.status = Status("Full", 0)

\* the three words looked for without toLowerCase()
ToastIsSuccessExactCase(toastText) ==
    \/ Includes(toastText, << "s", "u", "c", "c", "e", "s", "s" >>)
    \/ Includes(toastText, << "b", "o", "o", "k", "e", "d" >>)
    \/ Includes(toastText, << "c", "o", "n", "f", "i", "r", "m", "e", "d" >>)
\* lines 920-922 of bookSlots: the toast reports a success
ToastIsSuccess(toastText) ==
    \/ Includes(ToLowerCase(toastText), << "s", "u", "c", "c", "e", "s", "s" >>)
    \/ Includes(ToLowerCase(toastText), << "b", "o", "o", "k", "e", "d" >>)
    \/ Includes(ToLowerCase(toastText), << "c", "o", "n", "f", "i", "r", "m", "e", "d" >>)

(***************************************************************************)
(* The site, the configuration and the inputs explored.                    *)
(***************************************************************************)
CAF_INTENSE == << "C", "A", "F", " ", "I", "n", "t", "e", "n", "s", "e" >>
YOGA == << "Y", "o", "g", "a" >>
CAF == << "C", "A", "F" >>
T1230 == << NumTok(12, 2), COLON, NumTok(30, 2) >>
MONDAY_30_NOVEMBER == << DayTok(1, "Cap"), SP, NumTok(30, 2), SP, MonthTok(11, "Cap") >>

\* a card showing  <name> / 12:30 / Monday 30 November / <notice>
MkCard(name, notice, book) ==
    [hasH3 |-> TRUE, h3 |-> name, hasH5 |-> TRUE, h5 |-> T1230,
     text |-> << WordTok("name"), NL >> \o T1230 \o << NL >> \o MONDAY_30_NOVEMBER
              \o << NL >> \o notice,
     book |-> book, detached |-> FALSE]

CardBookable == MkCard(CAF_INTENSE, << NumTok(3, 1), SP, WordTok("remaining places") >>, TRUE)
CardFullWithButton == MkCard(CAF_INTENSE, << WordTok("Full") >>, TRUE)
CardSignedUp == MkCard(CAF_INTENSE, << WordTok("Signed up") >>, FALSE)
CardOther == MkCard(YOGA, << >>, TRUE)
CardNoHeading == [MkCard(CAF_INTENSE, << >>, TRUE) EXCEPT !.hasH3 = FALSE]

Cards == {CardBookable, CardFullWithButton, CardSignedUp, CardOther}

RECURSIVE SeqsUpTo(_, _)
SeqsUpTo(S, n) ==
    IF n = 0 THEN {<< >>}
    ELSE LET shorter == SeqsUpTo(S, n - 1)
         IN shorter \cup {Append(q, x) : q \in shorter, x \in S}

\* what the planning page may show when it is listed: any cards ("any"),
\* or no card or one bookable card ("plain")
PagesOf(s) ==
    IF s = "any" THEN SeqsUpTo(Cards, MaxCards) ELSE {<< >>, << CardBookable >>}

TargetCAF == [day |-> "Monday", time |-> T1230, activity |-> CAF,
              duration_minutes |-> 45, enabled |-> TRUE]

\* config.json: whether resamania.login_url is set, the target classes and
\* the booking settings (<< >> for a setting that is not given)
Configs ==
    {[login_url |-> l, target_classes |-> << TargetCAF >>,
      min_hours_from_now |-> << >>, max_days_from_now |-> << >>] : l \in BOOLEAN}

\* Sunday 29 November 2026, 20:00 and Monday 30 November 2026, 08:00
Clocks == {MakeDate(2026, 10, 29, 20, 0), MakeDate(2026, 10, 30, 8, 0)}

\* the texts of the notification shown after a booking
TOAST_BOOKED == << "B", "o", "o", "k", "e", "d" >>
TOAST_ERROR == << "E", "r", "r", "o", "r" >>
\* "SUCCESS", "Booking confirmed" and "Class full"
ToastTexts ==
    {TOAST_BOOKED, TOAST_ERROR,
     << "S", "U", "C", "C", "E", "S", "S" >>,
     << "B", "o", "o", "k", "i", "n", "g", " ", "c", "o", "n", "f", "i", "r", "m", "e", "d" >>,
     << "C", "l", "a", "s", "s", " ", "f", "u", "l", "l" >>}

\* the notifications of a site: any of the texts ("any"), or the first two
\* ("plain")
ToastsOf(s) == IF s = "any" THEN ToastTexts ELSE {TOAST_BOOKED, TOAST_ERROR}

\* the text of a date: one that new Date() parses to the instant t, or one
\* it does not parse
IsoText(t) == [iso |-> TRUE, time |-> t]
NOT_A_DATE == [iso |-> FALSE, time |-> 0]

\* new Date(text): << t >>, or << >> for an Invalid Date (its time is NaN)
NewDate(text) == IF text.iso THEN << text.time >> ELSE << >>

\* data/resamania_session.json: << >> when the file does not exist
SessionFiles ==
    {<< >>,
     << [storage_state |-> TRUE,
         expires_at |-> << IsoText(MakeDate(2026, 11, 1, 0, 0)) >>] >>}

RetryBudgets == (1..MaxBudget) \cup {DEFAULT_MAX_RETRIES}

RunIds == {"cli", "startup", "daily", "hourly"}
SchedRunIds == {"startup", "daily", "hourly"}

(***************************************************************************)
(* State.                                                                  *)
(***************************************************************************)
VARIABLES
    procState,     \* the Node process: "running" or "exited"
    exitCode,      \* << >> while running, << code >> once exited
    started,       \* BookingScheduler.start() has registered the cron tasks
    clock,         \* the instant new Date() returns
    config,        \* the configuration loaded by loadConfig
    site,          \* the pages the planning page may show, see PagesOf
    sessionFile,   \* the content of data/resamania_session.json
    run,           \* per run (one call of ResamaniaBooker.run): its locals
    probe          \* a direct call of listSlots or filterMatchingSlots: its
                   \* arguments and what it returned

vars == << procState, exitCode, started, clock, config, site, sessionFile, run,
           probe >>

\* no slot has gone through the booking procedure in this pass
NoOutcome == [kind |-> "none", toast |-> << >>]

\* the locals of a run that has not been called
IdleRun ==
    [pc |-> "idle", maxRetries |-> 0,
     sessionData |-> << >>, storageState |-> FALSE,
     browser |-> "none", lastNav |-> "none",
     attemptNumber |-> 0, totalBookedCount |-> 0, reloadedIn |-> 0,
     allSlots |-> << >>, matchingSlots |-> << >>,
     slotIdx |-> 0, bookedCount |-> 0, failedCount |-> 0, skippedCount |-> 0,
     clicked |-> {}, assumedCount |-> 0, waitedMs |-> 0,
     outcome |-> NoOutcome, delayMs |-> 0]

\* no direct call is made
NoProbe == [op |-> "none"]

Alive == procState = "running"
Set(r, st) == run' = [run EXCEPT ![r] = st]
Env == << clock, config, site, sessionFile, probe >>

(***************************************************************************)
(* auth.ts                                                                 *)
(***************************************************************************)
\* loadSession(): the parsed session file, << >> (null) when there is none
loadSession(file) == file

\* lines 102-117; `new Date() >= expiresAt` is false for an Invalid Date
isAuthenticated(sessionData, now) ==
    IF sessionData = << >> THEN FALSE
    ELSE IF sessionData[1].expires_at # << >>
         THEN LET expiresAt == NewDate(sessionData[1].expires_at[1])
              IN IF expiresAt # << >> /\ now >= expiresAt[1] THEN FALSE ELSE TRUE
         ELSE TRUE

\* getStorageState() returns a storage state (TRUE) or null (FALSE)
getStorageState(sessionData, now) ==
    isAuthenticated(sessionData, now) /\ sessionData[1].storage_state

\* the URL of the page is that of the login page ("login") or that of the
\* planning page ("planning")
isOnLoginPage(url) == url = "login"

(***************************************************************************)
(* main.ts: ResamaniaBooker.run, one action per step of a run r            *)
(***************************************************************************)
\* new ResamaniaSlotBooker(targets, settings): the settings with defaults
BookerSettings(cfg) ==
    [minHoursFromNow |-> IF cfg.min_hours_from_now = << >> THEN DEFAULT_MIN_HOURS
                         ELSE cfg.min_hours_from_now[1],
     maxDaysFromNow |-> IF cfg.max_days_from_now = << >> THEN DEFAULT_MAX_DAYS
                        ELSE cfg.max_days_from_now[1]]

\* the loop condition with <= for <
LoopContinuesInclusive(attemptNumber, maxRetries) == attemptNumber <= maxRetries
\* the loop condition counting the attempt about to start
LoopContinuesShort(attemptNumber, maxRetries) == attemptNumber + 1 < maxRetries
\* line 143: the loop condition
LoopContinues(attemptNumber, maxRetries) == attemptNumber < maxRetries
\* the reload skipped in the second attempt as well
NeedsReloadLate(attemptNumber) == attemptNumber > 2
\* line 149: the page is reloaded
NeedsReload(attemptNumber) == attemptNumber > 1
\* the loop left only after two bookings in one pass
BookingSucceededTwice(bookedCount) == bookedCount > 1
\* the loop never left on a booking
BookingNeverSucceeded(bookedCount) == FALSE
\* line 173: the booking pass booked something, the loop is left
BookingSucceeded(bookedCount) == bookedCount > 0
\* line 182: the loop waits before the next retry
WaitsBeforeRetry(attemptNumber, maxRetries) == attemptNumber < maxRetries
\* line 206: the status process.exit is called with in the catch block
CATCH_EXIT_STATUS == 1
\* line 134
RETRY_INTERVAL_MS == 1000
\* the empty matched set taken for a set to book
NoMatchingSlotsNever(matchingSlots) == FALSE
\* line 161
NoMatchingSlots(matchingSlots) == Len(matchingSlots) = 0

\* the slot lists declared outside the loop and kept from one attempt to the next
EndIterationKeepsSlots(st) ==
    [st EXCEPT !.slotIdx = 0, !.bookedCount = 0, !.failedCount = 0,
               !.skippedCount = 0, !.clicked = {}, !.assumedCount = 0, !.waitedMs = 0,
               !.outcome = NoOutcome, !.delayMs = 0]
\* the locals of one iteration of the retry loop go out of scope
EndIteration(st) ==
    [st EXCEPT !.allSlots = << >>, !.matchingSlots = << >>, !.slotIdx = 0,
               !.bookedCount = 0, !.failedCount = 0, !.skippedCount = 0,
               !.clicked = {}, !.assumedCount = 0, !.waitedMs = 0,
               !.outcome = NoOutcome, !.delayMs = 0]

\* an exception is thrown inside the try block of run: the catch block is
\* next, and what the try block declared (lines 136-137) is out of scope
Thrown(st) ==
    [EndIteration(st) EXCEPT !.pc = "catch", !.attemptNumber = 0,
                             !.totalBookedCount = 0, !.reloadedIn = 0]

\* the call run(maxRetries): the locals of a fresh run
CalledRun(maxRetries) == [IdleRun EXCEPT !.pc = "start", !.maxRetries = maxRetries]

\* lines 43-46 and 82: the constructors (the session file is read) and
\* chromium.launch, which is outside the try block
Launch(r) ==
    /\ Alive /\ run[r].pc = "start"
    /\ \/ Set(r, [run[r] EXCEPT !.pc = "navigate", !.browser = "open",
                                !.sessionData = loadSession(sessionFile)])
       \/ Set(r, [run[r] EXCEPT !.pc = "rejected",
                                !.sessionData = loadSession(sessionFile)])
    /\ UNCHANGED << procState, exitCode, started, Env >>

\* lines 89-110: the context is created with the saved session, if any, and
\* the page goes to the planning URL
Navigate(r) ==
    /\ Alive /\ run[r].pc = "navigate"
    /\ LET st == [run[r] EXCEPT
                     !.storageState = getStorageState(run[r].sessionData, clock)]
       IN \/ Set(r, [st EXCEPT !.pc = "checkLogin", !.lastNav = "planning"])
          \/ Set(r, Thrown(st))
    /\ UNCHANGED << procState, exitCode, started, Env >>

\* lines 112-141: page.url() is that of the planning page or, when the site
\* has redirected to it, that of its login page
CheckLogin(r) ==
    /\ Alive /\ run[r].pc = "checkLogin"
    /\ \E url \in {"planning", "login"} :
           IF isOnLoginPage(url)
           THEN Set(r, [run[r] EXCEPT !.pc = "login"])
           ELSE Set(r, [run[r] EXCEPT !.pc = "loop", !.totalBookedCount = 0,
                                      !.attemptNumber = 0])
    /\ UNCHANGED << procState, exitCode, started, Env >>

\* lines 115-121 with auth.ts loginBrowser: it returns false when the login
\* URL is not configured or when a step of the login throws, true otherwise
LoginBrowser(r) ==
    /\ Alive /\ run[r].pc = "login"
    /\ \/ /\ ~config.login_url
          /\ Set(r, [run[r] EXCEPT !.pc = "loginFailed"])
       \/ /\ config.login_url
          /\ Set(r, [run[r] EXCEPT !.pc = "loginFailed", !.lastNav = "login"])
       \/ /\ config.login_url
          /\ Set(r, [run[r] EXCEPT !.pc = "loop", !.lastNav = "login",
                                   !.totalBookedCount = 0, !.attemptNumber = 0])
       \/ /\ config.login_url
          /\ Set(r, Thrown([run[r] EXCEPT !.lastNav = "login"]))
    /\ UNCHANGED << procState, exitCode, started, Env >>

\* the failed login without its browser.close()
LoginFailedLeavesBrowser(st) == [st EXCEPT !.pc = "returned"]
\* lines 116-118: 'Login failed' is logged, the browser is closed, run returns
LoginFailedReturn(st) == [st EXCEPT !.pc = "returned", !.browser = "closed"]

LoginFailed(r) ==
    /\ Alive /\ run[r].pc = "loginFailed"
    /\ Set(r, LoginFailedReturn(run[r]))
    /\ UNCHANGED << procState, exitCode, started, Env >>

\* lines 143-149: the loop test and the attempt counter
LoopTest(r) ==
    /\ Alive /\ run[r].pc = "loop"
    /\ LET st == run[r]
       IN IF LoopContinues(st.attemptNumber, st.maxRetries)
          THEN Set(r, [st EXCEPT !.attemptNumber = @ + 1, !.waitedMs = 0,
                                 !.pc = IF NeedsReload(st.attemptNumber + 1)
                                        THEN "reload" ELSE "list"])
          ELSE Set(r, [st EXCEPT !.pc = "summary", !.waitedMs = 0])
    /\ UNCHANGED << procState, exitCode, started, Env >>

\* lines 150-152
Reload(r) ==
    /\ Alive /\ run[r].pc = "reload"
    /\ \/ Set(r, [run[r] EXCEPT !.pc = "list", !.lastNav = "planning",
                                !.reloadedIn = run[r].attemptNumber])
       \/ Set(r, Thrown(run[r]))
    /\ UNCHANGED << procState, exitCode, started, Env >>

\* the attempt numbers a run can reach
AttemptNumbers ==
    LET budgets == RetryBudgets \cup {DAILY_RETRIES, HOURLY_RETRIES, STARTUP_RETRIES}
    IN 1..(CHOOSE n \in budgets : \A k \in budgets : k <= n)

\* what listSlots returns, tabulated for every page, attempt and clock
ListedSlots ==
    [cards \in PagesOf("any") |->
        [attempt \in AttemptNumbers |->
            [now \in Clocks |-> listSlots(cards, attempt, now)]]]

\* line 156: listSlots(page) on the cards the page shows now
ListSlots(r) ==
    /\ Alive /\ run[r].pc = "list"
    /\ \/ \E cards \in PagesOf(site) :
              Set(r, [run[r] EXCEPT !.pc = "filter",
                         !.allSlots = ListedSlots[cards][run[r].attemptNumber][clock]])
       \/ Set(r, Thrown(run[r]))
    /\ UNCHANGED << procState, exitCode, started, Env >>

\* lines 159-165, and the first lines of bookSlots (868-869); allSlots is
\* not read after line 159
FilterSlots(r) ==
    /\ Alive /\ run[r].pc = "filter"
    /\ LET m == filterMatchingSlots(run[r].allSlots, config.target_classes,
                                    BookerSettings(config), clock)
       IN IF NoMatchingSlots(m)
          THEN \/ Set(r, [EndIteration(run[r]) EXCEPT
                              !.pc = "loop", !.waitedMs = RETRY_INTERVAL_MS])
               \/ Set(r, Thrown(run[r]))
          ELSE Set(r, [run[r] EXCEPT !.pc = "book", !.allSlots = << >>,
                                     !.matchingSlots = m, !.slotIdx = 1])
    /\ UNCHANGED << procState, exitCode, started, Env >>

(***************************************************************************)
(* booker.ts: bookSlots, one action per iteration of its loop              *)
(*                                                                         *)
(* What the page does while one slot is booked:                            *)
(*   button_throws  looking for the card's Book button throws              *)
(*   no_button      the card holds no Book button any more                 *)
(*   click_throws   the click on Book throws                               *)
(*   step_throws    a later step throws (a wait, the dialog, the toast)    *)
(*   toast          a notification with text `toast` is shown              *)
(*   no_toast       no notification is shown                               *)
(* A Confirm dialog (lines 901-906) may be shown and confirmed on the way  *)
(* to the last three; it changes nothing of what bookSlots records.        *)
(***************************************************************************)
Outcome(kind, toast) == [kind |-> kind, toast |-> toast]

BookOutcomes(s) ==
    {Outcome(k, << >>) : k \in {"button_throws", "no_button", "click_throws",
                                 "step_throws", "no_toast"}}
    \cup {Outcome("toast", t) : t \in ToastsOf(s)}

\* bookedCount++ and failedCount++
CountBooked(st) == [st EXCEPT !.bookedCount = @ + 1]
\* a failure that is not counted
CountFailedNot(st) == st
CountFailed(st) == [st EXCEPT !.failedCount = @ + 1]

\* line 897: the Book button of the slot at position idx is clicked
ClicksBook(o) == o.kind \notin {"button_throws", "no_button"}

\* lines 915-928: a notification is shown
OnToast(st, toastText) ==
    IF ToastIsSuccess(toastText) THEN CountBooked(st) ELSE CountFailed(st)

\* no notification counted as a failure
OnNoToastFails(st) == CountFailed(st)
\* lines 929-933: no notification is shown
OnNoToast(st) == CountBooked(st)

\* line 941
INTER_BOOKING_DELAY_MS == 1000

\* the delay made only after a click on Book
DelaysAfterClick(o) == o.kind \notin {"button_throws", "no_button"}
\* lines 889-893: the `continue` taken when the Book button is not found goes
\* to the next slot past the delay of line 941; every other way out of the
\* try block reaches the delay
DelaysAfter(o) == o.kind # "no_button"

\* lines 885-941: the try block for the slot at position idx, `outcome` and
\* delayMs record what the page did and the delay made after it
TryBook(st, idx, o) ==
    LET seen == [st EXCEPT !.outcome = o,
                           !.delayMs = IF DelaysAfter(o)
                                       THEN INTER_BOOKING_DELAY_MS ELSE 0]
        clicked == IF ClicksBook(o) THEN [seen EXCEPT !.clicked = @ \cup {idx}]
                   ELSE seen
    IN CASE o.kind \in {"button_throws", "no_button"} -> CountFailed(clicked)
         [] o.kind \in {"click_throws", "step_throws"} -> CountFailed(clicked)
         [] o.kind = "toast" -> OnToast(clicked, o.toast)
         [] o.kind = "no_toast" ->
                OnNoToast([clicked EXCEPT !.assumedCount = @ + 1])

\* lines 871-942: one iteration; the delay of line 941 is outside the try
\* block and is not reached after the `continue` of line 892
BookSlot(r) ==
    /\ Alive /\ run[r].pc = "book" /\ run[r].slotIdx <= Len(run[r].matchingSlots)
    /\ LET st == run[r]
           slot == st.matchingSlots[st.slotIdx]
           next == [st EXCEPT !.slotIdx = @ + 1]
       IN IF SkipsSlot(slot)
          THEN Set(r, [next EXCEPT !.skippedCount = @ + 1,
                                   !.outcome = NoOutcome, !.delayMs = 0])
          ELSE \E o \in BookOutcomes(site) :
                  \/ Set(r, TryBook(next, st.slotIdx, o))
                  \/ /\ DelaysAfter(o)
                     /\ Set(r, Thrown(TryBook(next, st.slotIdx, o)))
    /\ UNCHANGED << procState, exitCode, started, Env >>

\* lines 944-948 of bookSlots and lines 168-185 of run
BookReturn(r) ==
    /\ Alive /\ run[r].pc = "book" /\ run[r].slotIdx > Len(run[r].matchingSlots)
    /\ LET st == EndIteration([run[r] EXCEPT
                                  !.totalBookedCount = @ + run[r].bookedCount])
       IN IF BookingSucceeded(run[r].bookedCount)
          THEN Set(r, [st EXCEPT !.pc = "summary"])
          ELSE IF WaitsBeforeRetry(st.attemptNumber, st.maxRetries)
               THEN \/ Set(r, [st EXCEPT !.pc = "loop",
                                             !.waitedMs = RETRY_INTERVAL_MS])
                    \/ Set(r, Thrown(st))
               ELSE Set(r, [st EXCEPT !.pc = "loop"])
    /\ UNCHANGED << procState, exitCode, started, Env >>

\* the end of the try block without its browser.close()
SummaryReturnLeavesBrowser(st) == [Thrown(st) EXCEPT !.pc = "returned"]
\* lines 196-198: the browser is closed and run returns
SummaryReturn(st) == [Thrown(st) EXCEPT !.pc = "returned", !.browser = "closed"]

\* lines 188-198: the summary, the browser is closed, run returns
Summary(r) ==
    /\ Alive /\ run[r].pc = "summary"
    /\ Set(r, SummaryReturn(run[r]))
    /\ UNCHANGED << procState, exitCode, started, Env >>

\* the catch block without its browser.close()
CatchBlockLeavesBrowser(st) == [st EXCEPT !.pc = "exit"]
\* lines 200-205: the catch block logs and closes the browser
CatchBlock(st) == [st EXCEPT !.pc = "exit", !.browser = "closed"]

CatchClose(r) ==
    /\ Alive /\ run[r].pc = "catch"
    /\ Set(r, CatchBlock(run[r]))
    /\ UNCHANGED << procState, exitCode, started, Env >>

\* process.exit ends the runs in flight where they are: their locals are
\* gone and nothing closes the browser they hold
Killed(st) ==
    IF st.pc \in {"idle", "finished"} THEN st
    ELSE [IdleRun EXCEPT !.pc = "killed", !.browser = st.browser]

\* line 206: process.exit(1); the other runs of the process end with it
CatchExit(r) ==
    /\ Alive /\ run[r].pc = "exit"
    /\ procState' = "exited"
    /\ exitCode' = << CATCH_EXIT_STATUS >>
    /\ run' = [q \in RunIds |-> IF q = r THEN run[q] ELSE Killed(run[q])]
    /\ UNCHANGED << started, Env >>

RunStep(r) ==
    \/ Launch(r) \/ Navigate(r) \/ CheckLogin(r) \/ LoginBrowser(r)
    \/ LoginFailed(r)
    \/ LoopTest(r) \/ Reload(r) \/ ListSlots(r) \/ FilterSlots(r)
    \/ BookSlot(r) \/ BookReturn(r) \/ Summary(r) \/ CatchClose(r) \/ CatchExit(r)

(***************************************************************************)
(* main.ts, lines 212-218: the CLI entry point                             *)
(***************************************************************************)
\* run() has returned: nothing is left to do and the process ends
CliEnd ==
    /\ Alive /\ run["cli"].pc = "returned"
    /\ procState' = "exited"
    /\ exitCode' = << 0 >>
    /\ UNCHANGED << started, Env, run >>

\* lines 214-217: run() has rejected
CliCatch ==
    /\ Alive /\ run["cli"].pc = "rejected"
    /\ procState' = "exited"
    /\ exitCode' = << 1 >>
    /\ UNCHANGED << started, Env, run >>

(***************************************************************************)
(* scheduler.ts                                                            *)
(***************************************************************************)
\* runBooking calling run() with its default budget instead of `retries`
runBookingDefaultBudget(r, retries) == Set(r, CalledRun(DEFAULT_MAX_RETRIES))
\* lines 24-35: runBooking(retries, description) calls run(retries)
runBooking(r, retries) == Set(r, CalledRun(retries))

\* lines 43-76: start() registers the two cron tasks and starts one run
SchedulerStart ==
    /\ Alive /\ ~started
    /\ started' = TRUE
    /\ runBooking("startup", STARTUP_RETRIES)
    /\ UNCHANGED << procState, exitCode, Env >>

\* lines 54-59: the daily task; a run of this task is not in progress
CronDaily ==
    /\ Alive /\ started /\ run["daily"].pc = "idle"
    /\ runBooking("daily", DAILY_RETRIES)
    /\ UNCHANGED << procState, exitCode, started, Env >>

\* lines 62-65: the hourly task; a run of this task is not in progress
CronHourly ==
    /\ Alive /\ started /\ run["hourly"].pc = "idle"
    /\ runBooking("hourly", HOURLY_RETRIES)
    /\ UNCHANGED << procState, exitCode, started, Env >>

\* lines 37-40: run has returned or rejected, runBooking logs and returns
RunBookingEnd(r) ==
    /\ Alive /\ run[r].pc \in {"returned", "rejected"}
    /\ Set(r, [IdleRun EXCEPT !.pc = IF r = "startup" THEN "finished" ELSE "idle"])
    /\ UNCHANGED << procState, exitCode, started, Env >>

\* lines 80-88: SIGTERM or SIGINT, the handler calls process.exit(0)
Signal ==
    /\ Alive /\ started
    /\ procState' = "exited"
    /\ exitCode' = << 0 >>
    /\ run' = [q \in RunIds |-> Killed(run[q])]
    /\ UNCHANGED << started, Env >>

(***************************************************************************)
(* Specifications.                                                         *)
(***************************************************************************)
InitEnv ==
    /\ procState = "running"
    /\ exitCode = << >>
    /\ clock \in Clocks
    /\ config \in Configs
    /\ sessionFile \in SessionFiles
    /\ probe = NoProbe

\* the scheduler is explored with the login URL configured, no saved session
\* and the first clock
SchedEnv ==
    /\ procState = "running"
    /\ exitCode = << >>
    /\ clock = MakeDate(2026, 10, 29, 20, 0)
    /\ config \in {c \in Configs : c.login_url}
    /\ sessionFile = << >>
    /\ probe = NoProbe

\* one call run(maxRetries) from the CLI entry point or a caller of the class
Init ==
    /\ InitEnv
    /\ started = FALSE
    /\ site = "any"
    /\ \E n \in RetryBudgets :
           run = [r \in RunIds |-> IF r = "cli" THEN CalledRun(n) ELSE IdleRun]

Next == RunStep("cli") \/ CliEnd \/ CliCatch

Spec == Init /\ [][Next]_vars

\* every step of a run is an awaited page operation with a timeout or
\* synchronous code: a run that can take a step takes it
FairSpec == Spec /\ WF_vars(Next)

\* the scheduler process
SchedInit ==
    /\ SchedEnv
    /\ started = FALSE
    /\ site = "plain"
    /\ run = [r \in RunIds |-> IdleRun]

SchedNext ==
    \/ SchedulerStart \/ CronDaily \/ CronHourly \/ Signal
    \/ \E r \in SchedRunIds : RunStep(r) \/ RunBookingEnd(r)

SchedSpec == SchedInit /\ [][SchedNext]_vars

(***************************************************************************)
(* filterMatchingSlots called directly, twice, on one slot list.           *)
(***************************************************************************)
\* the instant of the first call: Sunday 29 November 2026, 20:00
MatchBase == MakeDate(2026, 10, 29, 20, 0)

T1830 == << NumTok(18, 2), COLON, NumTok(30, 2) >>
CAF_LOWER == << "c", "a", "f" >>

\* a slot record as listSlots builds it (lines 800-809)
MkSlot(name, day, time, status, avail, at) ==
    [activity_name |-> name, date |-> MONDAY_30_NOVEMBER, time |-> time,
     day_of_week |-> day, status |-> status, is_available |-> avail,
     card_element |-> [attempt |-> 1, idx |-> 0], at |-> at]

\* a slot the target {Monday, 12:30, CAF} matches, `offset` seconds after
\* the first call
CafSlotAt(offset) ==
    MkSlot(CAF_INTENSE, "Monday", T1230, Status("remaining places", 3), TRUE,
           << MatchBase + offset >>)

\* slots that differ in one of the fields the targets are compared with, or
\* in their status
TargetProbeSlots ==
    {CafSlotAt(8 * 60 * 60),
     [CafSlotAt(8 * 60 * 60) EXCEPT !.status = Status("Full", 0), !.is_available = FALSE],
     [CafSlotAt(8 * 60 * 60) EXCEPT !.day_of_week = "Tuesday"],
     [CafSlotAt(8 * 60 * 60) EXCEPT !.time = T1830],
     [CafSlotAt(8 * 60 * 60) EXCEPT !.activity_name = YOGA]}

\* slots around the ends of the window of 6 hours to 4 days, a slot 2 hours
\* ahead, and a slot whose instant is not resolved
WindowProbeSlots ==
    {CafSlotAt(o) : o \in {2 * 60 * 60,
                           6 * 60 * 60 - 1, 6 * 60 * 60, 6 * 60 * 60 + 1,
                           4 * 24 * 60 * 60, 4 * 24 * 60 * 60 + 1}}
    \cup {[CafSlotAt(0) EXCEPT !.at = << >>]}

\* the slots of a list carry the handles of distinct cards
Numbered(slots) ==
    [i \in 1..Len(slots) |-> [slots[i] EXCEPT !.card_element.idx = i]]

ProbeTargets ==
    {TargetCAF,
     [TargetCAF EXCEPT !.enabled = FALSE],
     [TargetCAF EXCEPT !.day = "monday"],
     [TargetCAF EXCEPT !.time = T1830],
     [TargetCAF EXCEPT !.activity = CAF_LOWER],
     [TargetCAF EXCEPT !.activity = YOGA]}

ProbeTargetLists ==
    {<< >>} \cup {<< t >> : t \in ProbeTargets}
    \cup {<< t, u >> : t \in ProbeTargets, u \in ProbeTargets}

MatchConfig(targets, minHours, maxDays) ==
    [login_url |-> TRUE, target_classes |-> targets,
     min_hours_from_now |-> minHours, max_days_from_now |-> maxDays]

\* the calls explored: any target list on slots that differ in what the
\* targets look at, or the one target on slots around the window, with the
\* default window or a window of 2 hours to 1 day
MatchCalls ==
    {[slots |-> Numbered(q), config |-> MatchConfig(t, << >>, << >>)] :
        q \in SeqsUpTo(TargetProbeSlots, MaxCards), t \in ProbeTargetLists}
    \cup
    {[slots |-> Numbered(q), config |-> MatchConfig(<< TargetCAF >>, w[1], w[2])] :
        q \in SeqsUpTo(WindowProbeSlots, MaxCards),
        w \in {<< << >>, << >> >>, << << 2 >>, << 1 >> >>}}

MatchInit ==
    /\ procState = "running"
    /\ exitCode = << >>
    /\ started = FALSE
    /\ clock = MatchBase
    /\ site = "plain"
    /\ sessionFile = << >>
    /\ run = [r \in RunIds |-> IdleRun]
    /\ \E c \in MatchCalls :
          /\ config = c.config
          /\ probe = [op |-> "slots", slots |-> c.slots,
                      out1 |-> << >>, at1 |-> 0, out2 |-> << >>, at2 |-> 0]

\* filterMatchingSlots({ allSlots }) is called
MatchFirst ==
    /\ probe.op = "slots"
    /\ probe' = [probe EXCEPT
                    !.op = "once", !.at1 = clock,
                    !.out1 = filterMatchingSlots(probe.slots, config.target_classes,
                                                 BookerSettings(config), clock)]
    /\ UNCHANGED << procState, exitCode, started, clock, config, site, sessionFile, run >>

\* a second passes before the second call
MatchTick ==
    /\ probe.op = "once" /\ clock = probe.at1
    /\ clock' = clock + 1
    /\ UNCHANGED << procState, exitCode, started, config, site, sessionFile, run, probe >>

\* filterMatchingSlots({ allSlots }) is called again on the same list
MatchSecond ==
    /\ probe.op = "once"
    /\ probe' = [probe EXCEPT
                    !.op = "twice", !.at2 = clock,
                    !.out2 = filterMatchingSlots(probe.slots, config.target_classes,
                                                 BookerSettings(config), clock)]
    /\ UNCHANGED << procState, exitCode, started, clock, config, site, sessionFile, run >>

MatchNext == MatchFirst \/ MatchTick \/ MatchSecond

MatchSpec == MatchInit /\ [][MatchNext]_vars

(***************************************************************************)
(* listSlots called directly on one page.                                  *)
(***************************************************************************)
\* cards that cannot be read, or lack the time heading or the date
CardDetached == [CardBookable EXCEPT !.detached = TRUE]
CardNoTime == [CardBookable EXCEPT !.hasH5 = FALSE]
CardNoDate ==
    [CardBookable EXCEPT !.text = << WordTok("name"), NL >> \o T1230 \o
                                  << NL, NumTok(3, 1), SP, WordTok("remaining places") >>]

\* cards whose text holds several of the cues of the status
CardSignedUpAndFull ==
    MkCard(CAF_INTENSE, << WordTok("Signed up"), NL, WordTok("Full") >>, FALSE)
CardFullAndPlaces ==
    MkCard(CAF_INTENSE, << WordTok("Full"), NL, NumTok(3, 1), SP,
                           WordTok("remaining places") >>, FALSE)
CardWaitingAndPlaces ==
    MkCard(CAF_INTENSE, << NumTok(2, 1), SP, WordTok("remaining places"), NL,
                           WordTok("waiting list") >>, TRUE)
CardWaiting == MkCard(CAF_INTENSE, << WordTok("waiting list") >>, FALSE)

ExtractCards ==
    Cards \cup {CardNoHeading, CardDetached, CardNoTime, CardNoDate,
                CardSignedUpAndFull, CardFullAndPlaces, CardWaitingAndPlaces,
                CardWaiting}

\* pages of about MAX_ACTIVITIES cards: the card c up to the card
\* MAX_ACTIVITIES, bookable cards after it
LongPages ==
    {[i \in 1..n |-> IF i <= MAX_ACTIVITIES THEN c ELSE CardBookable] :
        n \in (MAX_ACTIVITIES - 1)..(MAX_ACTIVITIES + MaxCards),
        c \in {CardOther, CardNoHeading, CardNoTime}}

ExtractPages == SeqsUpTo(ExtractCards, MaxCards) \cup LongPages

ExtractInit ==
    /\ procState = "running"
    /\ exitCode = << >>
    /\ started = FALSE
    /\ clock \in Clocks
    /\ config = MatchConfig(<< TargetCAF >>, << >>, << >>)
    /\ site = "any"
    /\ sessionFile = << >>
    /\ run = [r \in RunIds |-> IdleRun]
    /\ \E cards \in ExtractPages :
          probe = [op |-> "page", cards |-> cards, slots |-> << >>]

\* listSlots(page) is called on the page
ExtractList ==
    /\ probe.op = "page"
    /\ probe' = [probe EXCEPT !.op = "listed",
                              !.slots = listSlots(probe.cards, 1, clock)]
    /\ UNCHANGED << procState, exitCode, started, clock, config, site, sessionFile, run >>

ExtractNext == ExtractList

ExtractSpec == ExtractInit /\ [][ExtractNext]_vars

(***************************************************************************)
(* Properties of the retry loop and of bookSlots.                          *)
(***************************************************************************)
\* the steps of a run that belong to its attempt loop (main.ts 143-186)
InAttemptLoop(st) == st.pc \in {"loop", "reload", "list", "filter", "book"}

\* bookSlots has gone through all the matched slots and is about to return
PassDone(st) == st.pc = "book" /\ st.slotIdx > Len(st.matchingSlots)

\* the matched slot at position i is not bookable or is Full
NotBookableOrFull(st, i) ==
    \/ st.matchingSlots[i].is_available = FALSE
    \/ st.matchingSlots[i].status.s = "Full"

\* C1: for every maxAttempts >= 1 the retry loop terminates (it reaches the
\* final summary, or the catch block when a page operation throws), and the
\* number of attempts it has performed is then at least 1 and never more
\* than maxAttempts; the counter never exceeds maxAttempts on the way.
C1_RetryLoopTerminates ==
    /\ [](\A r \in RunIds : run[r].attemptNumber <= run[r].maxRetries)
    /\ [](\A r \in RunIds : run[r].pc = "summary" => run[r].attemptNumber >= 1)
    /\ (run["cli"].pc = "loop") ~> (run["cli"].pc \in {"summary", "catch"})

C1_Witness ==
    /\ run["cli"].pc = "summary"
    /\ run["cli"].attemptNumber >= 2
    /\ run["cli"].attemptNumber = run["cli"].maxRetries

\* C2: when the loop ends with no slot booked (totalBooked = 0 in the final
\* summary), exactly maxAttempts attempts have been made, the run returns
\* without an exception and the process does not exit with a non-zero status.
C2_ExhaustedAfterMaxAttempts ==
    /\ [][\A r \in RunIds :
            (run[r].pc = "summary" /\ run[r].totalBookedCount = 0)
            => /\ run[r].attemptNumber = run[r].maxRetries
               /\ run'[r].pc = "returned"
               /\ procState' = "running" /\ exitCode' = << >>]_vars
    /\ [](run["cli"].pc = "returned" => exitCode \in {<< >>, << 0 >>})

C2_Witness ==
    /\ run["cli"].pc = "summary"
    /\ run["cli"].maxRetries = 3
    /\ run["cli"].attemptNumber = 3
    /\ run["cli"].totalBookedCount = 0

\* C3: the retry loop stops at the first attempt whose booking pass reports
\* bookedCount > 0: the next step is the final summary, with the attempt
\* counter at the index of that attempt, and no reload, listing, matching or
\* booking follows the summary, whatever the retry budget left.
C3_StopsAtFirstSuccess ==
    /\ [][\A r \in RunIds :
            (PassDone(run[r]) /\ run[r].bookedCount > 0)
            => /\ run'[r].pc = "summary"
               /\ run'[r].attemptNumber = run[r].attemptNumber
               /\ run'[r].totalBookedCount = run[r].bookedCount]_vars
    /\ [][\A r \in RunIds :
            run[r].pc = "summary" => ~InAttemptLoop(run'[r])]_vars
    /\ [](\A r \in RunIds : InAttemptLoop(run[r]) => run[r].totalBookedCount = 0)

C3_Witness ==
    /\ run["cli"].pc = "summary"
    /\ run["cli"].maxRetries = DEFAULT_MAX_RETRIES
    /\ run["cli"].attemptNumber = 1
    /\ run["cli"].totalBookedCount > 0

\* C4 (as claimed): once a booking of the run has been counted as succeeded,
\* no Book button is clicked any more, that of the remaining matched slots
\* of the same attempt included.
C4_NoBookAfterSuccess ==
    [][\A r \in RunIds :
          (run[r].bookedCount > 0 \/ run[r].totalBookedCount > 0)
          => run'[r].clicked \subseteq run[r].clicked]_vars

\* C4 (amended): once a booking pass has returned with bookedCount > 0, no
\* later attempt clicks a Book button: every click on Book is made in a pass
\* that no successful pass precedes. The matched slots that remain in the
\* pass of the first success are still processed.
C4_NoBookAfterSuccessfulPass ==
    /\ [][\A r \in RunIds :
            run'[r].clicked \ run[r].clicked # {}
            => /\ run[r].pc = "book"
               /\ run[r].totalBookedCount = 0]_vars
    /\ [](\A r \in RunIds : run[r].totalBookedCount > 0
             => run[r].pc = "summary" /\ run[r].clicked = {})

C4_Witness ==
    /\ run["cli"].pc = "book"
    /\ run["cli"].bookedCount = 2
    /\ run["cli"].clicked = {1, 2}

\* C5: bookSlots clicks the Book button only of matched slots with
\* is_available = true and a status other than Full; a matched slot that is
\* not bookable or is Full gets no click.
C5_BookOnlyBookableNotFull ==
    \A r \in RunIds : \A i \in run[r].clicked :
        /\ i \in 1..Len(run[r].matchingSlots)
        /\ ~NotBookableOrFull(run[r], i)

C5_Witness ==
    /\ PassDone(run["cli"])
    /\ Len(run["cli"].matchingSlots) = 2
    /\ NotBookableOrFull(run["cli"], 1)
    /\ run["cli"].clicked = {2}

\* C6: a skipped slot counts neither as booked nor as failed: while
\* bookSlots runs, the slots skipped so far are exactly the processed ones
\* that are not bookable or are Full, and bookedCount + failedCount + skipped
\* is the number of slots processed, which is totalMatching on return.
C6_EverySlotCountedOnce ==
    \A r \in RunIds : run[r].pc = "book" =>
        LET st == run[r]
            done == 1..(st.slotIdx - 1)
        IN /\ st.slotIdx - 1 <= Len(st.matchingSlots)
           /\ st.skippedCount = Cardinality({i \in done : NotBookableOrFull(st, i)})
           /\ st.bookedCount + st.failedCount + st.skippedCount = st.slotIdx - 1
           /\ PassDone(st) =>
                 st.bookedCount + st.failedCount + st.skippedCount
                    = Len(st.matchingSlots)

C6_Witness ==
    /\ PassDone(run["cli"])
    /\ Len(run["cli"].matchingSlots) = 1
    /\ run["cli"].matchingSlots[1].status.s = "Full"
    /\ run["cli"].bookedCount = 0 /\ run["cli"].failedCount = 0
    /\ run["cli"].skippedCount = 1

\* C7: when Book was clicked for a slot and no notification is shown, the
\* slot is counted as booked (bookedCount + 1, failedCount unchanged), and a
\* pass holding such a slot ends the retry loop when it returns.
C7_NoToastIsSuccess ==
    /\ [][\A r \in RunIds :
            run'[r].assumedCount = run[r].assumedCount + 1
            => /\ run'[r].bookedCount = run[r].bookedCount + 1
               /\ run'[r].failedCount = run[r].failedCount
               /\ run[r].slotIdx \in run'[r].clicked]_vars
    /\ [][\A r \in RunIds :
            (PassDone(run[r]) /\ run[r].assumedCount > 0)
            => run'[r].pc = "summary" /\ run'[r].totalBookedCount > 0]_vars

C7_Witness ==
    /\ PassDone(run["cli"])
    /\ run["cli"].assumedCount = 1
    /\ run["cli"].bookedCount = 1
    /\ run["cli"].attemptNumber < run["cli"].maxRetries

\* C8: when an exception escapes the attempt loop, the run starts no further
\* attempt: the catch block closes the browser and the process ends with a
\* non-zero exit status.
C8_ExceptionEndsRun ==
    /\ [][\A r \in RunIds :
            run[r].pc \in {"catch", "exit"}
            => /\ run'[r].pc \in {"catch", "exit"}
               /\ run'[r].attemptNumber = run[r].attemptNumber]_vars
    /\ [](\A r \in RunIds : run[r].pc = "exit" => run[r].browser = "closed")
    /\ [](\A r \in RunIds : (run[r].pc = "exit" /\ procState = "exited")
             => exitCode # << >> /\ exitCode[1] # 0)
    /\ (run["cli"].pc = "catch") ~> (procState = "exited" /\ exitCode = << 1 >>)

C8_Witness ==
    /\ run["cli"].pc = "exit"
    /\ run["cli"].lastNav = "planning"
    /\ run["cli"].browser = "closed"
    /\ procState = "exited"
    /\ exitCode = << 1 >>

\* C9: at any moment at most one booking run is executing its attempt loop,
\* across the start-up run, the daily cron callback and the hourly cron
\* callback of the scheduler.
C9_OneRunInFlight ==
    Cardinality({r \in RunIds : InAttemptLoop(run[r])}) <= 1

\* C10: in every attempt after the first the page has been navigated again
\* to the planning URL, within that attempt, when listSlots runs; in the
\* first attempt no reload has been made.
C10_ReloadBeforeListing ==
    \A r \in RunIds : run[r].pc = "list" =>
        /\ run[r].attemptNumber > 1
              => run[r].reloadedIn = run[r].attemptNumber /\ run[r].lastNav = "planning"
        /\ run[r].attemptNumber = 1 => run[r].reloadedIn = 0

C10_Witness ==
    /\ run["cli"].pc = "list"
    /\ run["cli"].attemptNumber = 2
    /\ run["cli"].reloadedIn = 2

\* the slot records a run holds
HeldSlots(st) ==
    {st.allSlots[i] : i \in 1..Len(st.allSlots)}
    \cup {st.matchingSlots[i] : i \in 1..Len(st.matchingSlots)}

\* C11: every slot record a run holds, and so every card handle a Book
\* action acts on, comes from the listSlots call of the current attempt,
\* which in an attempt after the first was made after that attempt's reload;
\* no record of an earlier attempt is kept.
C11_HandlesOfCurrentAttempt ==
    \A r \in RunIds :
        /\ \A slot \in HeldSlots(run[r]) :
              slot.card_element.attempt = run[r].attemptNumber
        /\ (HeldSlots(run[r]) # {} /\ run[r].attemptNumber > 1)
              => run[r].reloadedIn = run[r].attemptNumber
        /\ \A i \in run[r].clicked :
              /\ run[r].pc = "book"
              /\ i \in 1..Len(run[r].matchingSlots)
              /\ run[r].matchingSlots[i].card_element.attempt = run[r].attemptNumber

C11_Witness ==
    /\ run["cli"].pc = "book"
    /\ run["cli"].attemptNumber = 2
    /\ run["cli"].clicked = {1}
    /\ run["cli"].matchingSlots[1].card_element.attempt = 2

\* C12: when the matched set of an attempt is empty the booking procedure is
\* not invoked and no count changes: the loop waits the backoff interval of
\* 1000 ms and goes back to the loop test, which starts the next attempt if
\* the budget allows (the catch block is next when the wait throws).
C12_EmptyMatchWaitsAndRetries ==
    /\ [][\A r \in RunIds :
            (/\ run[r].pc = "filter"
             /\ filterMatchingSlots(run[r].allSlots, config.target_classes,
                                    BookerSettings(config), clock) = << >>)
            => \/ run'[r].pc = "catch"
               \/ /\ run'[r].pc = "loop"
                  /\ run'[r].waitedMs = 1000
                  /\ run'[r].clicked = {}
                  /\ run'[r].bookedCount = 0 /\ run'[r].failedCount = 0
                  /\ run'[r].totalBookedCount = run[r].totalBookedCount
                  /\ run'[r].attemptNumber = run[r].attemptNumber]_vars
    /\ [][\A r \in RunIds :
            (run[r].pc = "loop" /\ run[r].waitedMs > 0)
            => IF run[r].attemptNumber < run[r].maxRetries
               THEN run'[r].attemptNumber = run[r].attemptNumber + 1
               ELSE run'[r].pc = "summary"]_vars

C12_Witness ==
    /\ run["cli"].pc = "loop"
    /\ run["cli"].waitedMs = 1000
    /\ run["cli"].attemptNumber = 1
    /\ run["cli"].maxRetries = 3
    /\ run["cli"].totalBookedCount = 0

(***************************************************************************)
(* Properties of filterMatchingSlots.                                      *)
(***************************************************************************)
\* the slot is one of those a call returned
InOut(out, slot) == \E i \in 1..Len(out) : out[i] = slot

\* the cards whose slots a call returned
HandlesOf(out) == {out[i].card_element.idx : i \in 1..Len(out)}

\* the instant of the slot is resolved and lies in the closed interval from
\* minHoursFromNow hours to maxDaysFromNow days after the instant t
InClosedWindow(slot, t) ==
    LET minHours == IF config.min_hours_from_now = << >> THEN 6
                    ELSE config.min_hours_from_now[1]
        maxDays == IF config.max_days_from_now = << >> THEN 4
                   ELSE config.max_days_from_now[1]
    IN /\ slot.at # << >>
       /\ t + minHours * 3600 <= slot.at[1]
       /\ slot.at[1] <= t + maxDays * 86400

\* the keyword occurs in the name, whatever the case of the letters
KeywordIn(name, keyword) ==
    \E i \in 0..(Len(name) - Len(keyword)) :
        \A j \in 1..Len(keyword) : LowerChar(name[i + j]) = LowerChar(keyword[j])

\* some enabled target has the day, the time and the keyword of the slot
SomeTargetFits(slot) ==
    \E t \in {config.target_classes[j] : j \in 1..Len(config.target_classes)} :
        /\ t.enabled = TRUE
        /\ t.day = slot.day_of_week
        /\ t.time = slot.time
        /\ KeywordIn(slot.activity_name, t.activity)

\* the same list with the target order reversed
ReversedTargets ==
    LET ts == config.target_classes
    IN [j \in 1..Len(ts) |-> ts[Len(ts) + 1 - j]]

\* the same slots with every status turned to another one
OtherStatuses(slots) ==
    [i \in 1..Len(slots) |->
        [slots[i] EXCEPT !.status = IF @ = Status("Full", 0)
                                    THEN Status("Available", 0)
                                    ELSE Status("Full", 0),
                         !.is_available = ~@]]

\* C13: target matching is conjunctive and existential: a slot inside the
\* window is returned iff some enabled target has its day (exactly), its
\* time text (exactly) and a keyword contained in its activity name whatever
\* the letter case; the slots returned do not depend on the order of the
\* target list nor on the statuses of the slots.
C13_TargetStageConjunctiveExistential ==
    probe.op \in {"once", "twice"} =>
        /\ \A i \in 1..Len(probe.slots) :
              InClosedWindow(probe.slots[i], probe.at1)
              => (InOut(probe.out1, probe.slots[i]) <=> SomeTargetFits(probe.slots[i]))
        /\ probe.out1 = filterMatchingSlots(probe.slots, ReversedTargets,
                                            BookerSettings(config), probe.at1)
        /\ HandlesOf(probe.out1)
              = HandlesOf(filterMatchingSlots(OtherStatuses(probe.slots),
                                              config.target_classes,
                                              BookerSettings(config), probe.at1))

C13_Witness ==
    /\ probe.op = "once"
    /\ Len(config.target_classes) = 2
    /\ config.target_classes[1].enabled = FALSE
    /\ config.target_classes[2].activity = CAF_LOWER
    /\ Len(probe.slots) = 2
    /\ probe.slots[1].day_of_week = "Tuesday"
    /\ probe.slots[2].status = Status("Full", 0)
    /\ probe.out1 = << probe.slots[2] >>

\* C14: the time-window filter is a closed interval: a slot that a target
\* matches is returned iff its instant is resolved and lies between
\* now + minHoursFromNow hours and now + maxDaysFromNow days, both ends
\* included; one second outside either end it is dropped.
C14_ClosedWindow ==
    probe.op \in {"once", "twice"} =>
        \A i \in 1..Len(probe.slots) :
            SomeTargetFits(probe.slots[i])
            => (InOut(probe.out1, probe.slots[i])
                  <=> InClosedWindow(probe.slots[i], probe.at1))

C14_Witness ==
    /\ probe.op = "once"
    /\ config.min_hours_from_now = << >>
    /\ Len(probe.slots) = 2
    /\ probe.slots[1].at = << probe.at1 + 6 * 3600 - 1 >>
    /\ probe.slots[2].at = << probe.at1 + 6 * 3600 >>
    /\ SomeTargetFits(probe.slots[1])
    /\ probe.out1 = << probe.slots[2] >>

Inspected(cards) ==
    1..(IF Len(cards) < MAX_ACTIVITIES THEN Len(cards) ELSE MAX_ACTIVITIES)

\* the records returned for the card at position i
RecordsOf(slots, i) ==
    LET OfCard(slot) == slot.card_element.idx = i IN SelectSeq(slots, OfCard)

\* the text holds the word w
TextHas(text, w) == \E i \in 1..Len(text) : text[i] = WordTok(w)

\* the numbers n of the places where the text reads "<n> remaining place"
PlacesLeft(text) ==
    {text[i].n : i \in {k \in 1..Len(text) :
        /\ text[k].k = "num"
        /\ \E j \in (k + 2)..Len(text) :
              /\ text[j].k = "word"
              /\ text[j].s \in {"remaining place", "remaining places"}
              /\ \A b \in (k + 1)..(j - 1) : text[b].k = "ws"}}

\* the text holds the triple <day name> <1-2 digits> <month name>
HasDateTriple(text) ==
    \E i, j, k \in 1..Len(text) :
        /\ i + 1 < j /\ j + 1 < k
        /\ text[i].k = "day" /\ text[j].k = "num" /\ text[k].k = "month"
        /\ text[j].len <= 2
        /\ \A b \in ((i + 1)..(j - 1)) \cup ((j + 1)..(k - 1)) : text[b].k = "ws"

\* C16: one bad card never aborts an extraction pass: a card with no
\* activity heading, or one that cannot be read, yields no record, every card
\* inspected yields exactly the record its own parsing gives whatever the
\* other cards are, and the records are in the order of the cards.
C16_BadCardSkippedOthersKept ==
    probe.op = "listed" =>
        /\ \A i \in Inspected(probe.cards) :
              /\ RecordsOf(probe.slots, i)
                    = CardSlot(probe.cards[i], [attempt |-> 1, idx |-> i], clock)
              /\ (probe.cards[i].detached \/ ~probe.cards[i].hasH3)
                    => RecordsOf(probe.slots, i) = << >>
        /\ \A j, k \in 1..Len(probe.slots) :
              j < k => probe.slots[j].card_element.idx < probe.slots[k].card_element.idx

C16_Witness ==
    /\ probe.op = "listed"
    /\ Len(probe.cards) = 2
    /\ ~probe.cards[1].hasH3
    /\ Len(probe.slots) = 1
    /\ probe.slots[1].card_element.idx = 2

\* C17: a card that has an activity heading and can be read yields a slot
\* record even when it has no time heading (time 'Unknown') or no
\* recognisable date triple (date 'Unknown', instant unresolved).
C17_RecordWithoutTimeOrDate ==
    probe.op = "listed" =>
        \A i \in Inspected(probe.cards) :
            (probe.cards[i].hasH3 /\ ~probe.cards[i].detached)
            => /\ Len(RecordsOf(probe.slots, i)) = 1
               /\ ~probe.cards[i].hasH5
                     => RecordsOf(probe.slots, i)[1].time = UnknownText
               /\ ~HasDateTriple(probe.cards[i].text)
                     => /\ RecordsOf(probe.slots, i)[1].date = UnknownText
                        /\ RecordsOf(probe.slots, i)[1].at = << >>

\* C18: one extraction pass inspects at most the first 50 cards of the page
\* and returns at most 50 records: no record has the handle of a card after
\* the 50th.
C18_AtMostFiftyCards ==
    probe.op = "listed" =>
        /\ Len(probe.slots) <= 50
        /\ \A j \in 1..Len(probe.slots) : probe.slots[j].card_element.idx <= 50

C18_Witness ==
    /\ probe.op = "listed"
    /\ Len(probe.cards) > 50
    /\ probe.cards[51].book
    /\ Len(probe.slots) = 50

\* C19: the status is that of the first cue the card text holds, in the
\* order 'Signed up', 'Full', 'waiting list', '<n> remaining place',
\* and Available when it holds none.
C19_StatusPriorityChain ==
    probe.op = "listed" =>
        \A j \in 1..Len(probe.slots) :
            LET text == probe.cards[probe.slots[j].card_element.idx].text
                st == probe.slots[j].status
                rank == CASE st.s = "Signed up" -> 1
                          [] st.s = "Full" -> 2
                          [] st.s = "On waiting list" -> 3
                          [] st.s = "remaining places" -> 4
                          [] st.s = "Available" -> 5
                cues == {r \in 1..5 :
                            \/ r = 1 /\ TextHas(text, "Signed up")
                            \/ r = 2 /\ TextHas(text, "Full")
                            \/ r = 3 /\ TextHas(text, "waiting list")
                            \/ r = 4 /\ PlacesLeft(text) # {}
                            \/ r = 5}
            IN /\ rank \in cues
               /\ \A r \in cues : rank <= r
               /\ rank = 4 => st.n \in PlacesLeft(text)

C19_Witness ==
    /\ probe.op = "listed"
    /\ probe.cards = << CardSignedUpAndFull, CardFullAndPlaces >>
    /\ Len(probe.slots) = 2
    /\ probe.slots[1].status.s = "Signed up"
    /\ probe.slots[2].status.s = "Full"

\* C20: every slot record listSlots returns satisfies: is_available = true
\* implies that the status is not Full.
C20_BookableNotFull ==
    probe.op = "listed" =>
        \A j \in 1..Len(probe.slots) :
            probe.slots[j].is_available = TRUE => probe.slots[j].status.s # "Full"

(***************************************************************************)
(* Properties of the scheduler process.                                    *)
(***************************************************************************)
\* C21: a termination signal (SIGTERM or SIGINT) received while a booking
\* attempt is in flight does not interrupt it: the process ends with the
\* status of the signal handlers (0) only when no run is inside its attempt
\* loop, the attempt in progress having run to its end.
C21_SignalLetsAttemptFinish ==
    [][(procState = "running" /\ procState' = "exited" /\ exitCode' = << 0 >>)
       => \A r \in RunIds : ~InAttemptLoop(run[r])]_vars

\* C22: the scheduler keeps running: an error during one scheduled run, an
\* exception inside the attempt loop of the run included, is caught and
\* logged by runBooking and the process stays alive for the later cron
\* triggers; the scheduler process ends only on a termination signal
\* (status 0), never on the error of a run.
C22_SchedulerSurvivesRunErrors ==
    /\ procState = "exited" => exitCode = << 0 >>
    /\ \A r \in SchedRunIds : run[r].pc \in {"catch", "exit"} => procState = "running"

C24_SessionSavedAfterLogin ==
    [][\A r \in RunIds :
          (/\ run[r].pc = "summary" /\ run[r].lastNav = "login"
           /\ run'[r].pc = "returned")
          => /\ loadSession(sessionFile') # << >>
             /\ loadSession(sessionFile')[1].storage_state]_vars

\* C25: a slot that a target matches and whose instant is unresolved is
\* never returned by filterMatchingSlots, at either call and whatever the
\* window: every returned slot has a resolved instant, so no unresolved
\* slot is handed to bookSlots.
C25_UnresolvedNeverReturned ==
    probe.op \in {"once", "twice"} =>
        /\ \A i \in 1..Len(probe.slots) :
              probe.slots[i].at = << >>
              => /\ ~InOut(probe.out1, probe.slots[i])
                 /\ ~InOut(probe.out2, probe.slots[i])
        /\ \A j \in 1..Len(probe.out1) : probe.out1[j].at # << >>
        /\ \A j \in 1..Len(probe.out2) : probe.out2[j].at # << >>

C25_Witness ==
    /\ probe.op = "twice"
    /\ Len(probe.slots) = 2
    /\ probe.slots[1].at = << >>
    /\ SomeTargetFits(probe.slots[1])
    /\ probe.slots[2].at = << probe.at1 + 6 * 3600 + 1 >>
    /\ probe.out1 = << probe.slots[2] >>
    /\ probe.out2 = << probe.slots[2] >>

(***************************************************************************)
(* Properties of the booking procedure of one slot.                        *)
(***************************************************************************)
\* what the page did for the slot: the procedure failed before a toast
FailedProcedure(o) ==
    o.kind \in {"button_throws", "no_button", "click_throws", "step_throws"}

\* the step of run r has put one more matched slot through the try block of
\* bookSlots, and bookSlots goes on
Tried(r) ==
    /\ run[r].pc = "book" /\ run'[r].pc = "book"
    /\ run'[r].slotIdx = run[r].slotIdx + 1
    /\ run'[r].outcome # NoOutcome

\* C26: a failure while booking one slot is local and counted: when the
\* Book button is not found, or looking for it, the click or a later step
\* of the procedure throws, failedCount increases by exactly one, bookedCount
\* and the skipped count are unchanged, and bookSlots goes on with the next
\* matched slot and returns its tally to the loop at the end of the pass.
C26_FailureLocalAndCounted ==
    /\ [][\A r \in RunIds :
            (Tried(r) /\ FailedProcedure(run'[r].outcome))
            => /\ run'[r].failedCount = run[r].failedCount + 1
               /\ run'[r].bookedCount = run[r].bookedCount
               /\ run'[r].skippedCount = run[r].skippedCount
               /\ run'[r].matchingSlots = run[r].matchingSlots
               /\ run'[r].attemptNumber = run[r].attemptNumber]_vars
    /\ [][\A r \in RunIds :
            (PassDone(run[r]) /\ run[r].failedCount > 0 /\ run'[r] # run[r])
            => /\ run'[r].pc \in {"loop", "summary", "catch"}
               /\ run'[r].pc # "catch"
                     => run'[r].totalBookedCount = run[r].bookedCount]_vars

C26_Witness ==
    /\ PassDone(run["cli"])
    /\ Len(run["cli"].matchingSlots) = 2
    /\ run["cli"].failedCount = 1
    /\ run["cli"].bookedCount = 1
    /\ run["cli"].clicked = {2}
    /\ run["cli"].outcome.kind = "no_toast"

\* C27: when a notification is shown after the Book action, the slot is
\* counted as booked iff the text of the notification holds 'success',
\* 'booked' or 'confirmed', whatever the case of its letters, and as failed
\* with any other text: exactly one of the two counters increases, by one.
C27_ToastClassifiesOutcome ==
    [][\A r \in RunIds :
          (Tried(r) /\ run'[r].outcome.kind = "toast")
          => LET text == run'[r].outcome.toast
                 good == \/ KeywordIn(text, << "s", "u", "c", "c", "e", "s", "s" >>)
                         \/ KeywordIn(text, << "b", "o", "o", "k", "e", "d" >>)
                         \/ KeywordIn(text, << "c", "o", "n", "f", "i", "r", "m", "e", "d" >>)
             IN /\ good => /\ run'[r].bookedCount = run[r].bookedCount + 1
                           /\ run'[r].failedCount = run[r].failedCount
                /\ ~good => /\ run'[r].failedCount = run[r].failedCount + 1
                            /\ run'[r].bookedCount = run[r].bookedCount
                /\ run'[r].skippedCount = run[r].skippedCount
                /\ run[r].slotIdx \in run'[r].clicked]_vars

C27_Witness ==
    /\ PassDone(run["cli"])
    /\ Len(run["cli"].matchingSlots) = 2
    /\ run["cli"].outcome.kind = "toast"
    /\ run["cli"].outcome.toast = << "S", "U", "C", "C", "E", "S", "S" >>
    /\ run["cli"].bookedCount = 1
    /\ run["cli"].failedCount = 1
    /\ run["cli"].clicked = {1, 2}

\* C28 (as claimed): every slot that enters the booking procedure is
\* followed by the inter-booking delay before the next slot is processed,
\* whatever its outcome, the Book button not found included.
C28_DelayAfterEverySlot ==
    [][\A r \in RunIds : Tried(r) => run'[r].delayMs = 1000]_vars

\* C28 (amended): a slot that enters the booking procedure is followed by
\* the delay of 1000 ms when it was booked, failed by its toast or failed by
\* an exception (that of the button lookup included); when its Book button
\* is not found the slot is counted as failed and the next slot is processed
\* at once, as after a skipped slot.
C28_DelayUnlessButtonMissing ==
    /\ [][\A r \in RunIds :
            Tried(r) => run'[r].delayMs = IF run'[r].outcome.kind = "no_button"
                                          THEN 0 ELSE 1000]_vars
    /\ [][\A r \in RunIds :
            run'[r].skippedCount = run[r].skippedCount + 1
            => run'[r].delayMs = 0]_vars

C28_Witness ==
    /\ run["cli"].pc = "book"
    /\ Len(run["cli"].matchingSlots) = 2
    /\ run["cli"].slotIdx = 2
    /\ run["cli"].outcome.kind = "button_throws"
    /\ run["cli"].failedCount = 1
    /\ run["cli"].delayMs = 1000

(***************************************************************************)
(* Properties of the retry wait.                                           *)
(***************************************************************************)
\* C29: the retry loop waits the retry interval before the next retry but
\* not after the last attempt: when the attempt numbered maxRetries ends, by
\* an empty matched set or by a pass that booked nothing, the loop test and
\* the final summary follow without a retry wait.
C29_NoWaitAfterLastAttempt ==
    \A r \in RunIds :
        (run[r].pc = "loop" /\ run[r].attemptNumber = run[r].maxRetries)
        => run[r].waitedMs = 0

(***************************************************************************)
(* parseSlotDateTime called directly on a date fragment and a time.        *)
(***************************************************************************)
\* the fragment "Monday <d> <Month>" and the time "<hh>:<mm>" as the cards
\* write them
DateText(d, m) ==
    << DayTok(1, "Cap"), SP, NumTok(d, IF d < 10 THEN 1 ELSE 2), SP, MonthTok(m, "Cap") >>
TimeText(h, mi) == << NumTok(h, 2), COLON, NumTok(mi, 2) >>

\* the calls explored: days at the start and the end of a month, in January,
\* February and December, early, at midday and late, with the clock at the
\* end of 2026, on the first second of 2027, on 29 February 2028 after
\* midday, on 2 December 2026 at 12:30:00 and 12:30:30, and in the last
\* minute of 2028
ParseCalls ==
    {[d |-> d, m |-> m, h |-> t[1], mi |-> t[2], now |-> now] :
        d \in {1, 2, 28, 29, 30, 31}, m \in {1, 2, 12},
        t \in {<< 0, 0 >>, << 12, 30 >>, << 23, 59 >>},
        now \in {MakeDate(2026, 10, 29, 20, 0), MakeDate(2027, 0, 1, 0, 0),
                 MakeDate(2028, 1, 29, 13, 0), MakeDate(2026, 11, 2, 12, 30),
                 MakeDate(2026, 11, 2, 12, 30) + 30,
                 MakeDate(2028, 11, 31, 23, 59)}}

ParseInit ==
    /\ procState = "running"
    /\ exitCode = << >>
    /\ started = FALSE
    /\ config = MatchConfig(<< TargetCAF >>, << >>, << >>)
    /\ site = "plain"
    /\ sessionFile = << >>
    /\ run = [r \in RunIds |-> IdleRun]
    /\ \E c \in ParseCalls :
          /\ clock = c.now
          /\ probe = [op |-> "date", d |-> c.d, m |-> c.m, h |-> c.h, mi |-> c.mi,
                      dateStr |-> DateText(c.d, c.m), timeStr |-> TimeText(c.h, c.mi),
                      result |-> Threw]

\* parseSlotDateTime(dateStr, timeStr) is called
ParseCall ==
    /\ probe.op = "date"
    /\ probe' = [probe EXCEPT
                    !.op = "parsed",
                    !.result = parseSlotDateTime(probe.dateStr, probe.timeStr, clock)]
    /\ UNCHANGED << procState, exitCode, started, clock, config, site, sessionFile, run >>

ParseNext == ParseCall

ParseSpec == ParseInit /\ [][ParseNext]_vars

(***************************************************************************)
(* Properties of parseSlotDateTime.                                        *)
(***************************************************************************)
\* the instant t is day d of month m (1..12) of the year y, at h:mi
IsDayOfMonth(t, y, m, d, h, mi) ==
    /\ d \in 1..DaysInMonth(y, m - 1)
    /\ t = MakeDate(y, m - 1, d, h, mi)

\* C30: for a fragment 'DayName D Month' with D a day of that month and a
\* valid time HH:MM, parseSlotDateTime returns day D of that month at HH:MM
\* in the current year when that instant is not before now, and the same
\* day, month and time in the next year otherwise; the returned instant is
\* never before now.
C30_MonthDateThisYearOrNext ==
    (probe.op = "parsed" /\ probe.d \in 1..DaysInMonth(GetFullYear(clock), probe.m - 1))
    => LET y == GetFullYear(clock)
           thisYear == MakeDate(y, probe.m - 1, probe.d, probe.h, probe.mi)
       IN /\ ~probe.result.threw
          /\ probe.result.at >= clock
          /\ IF thisYear >= clock
             THEN IsDayOfMonth(probe.result.at, y, probe.m, probe.d, probe.h, probe.mi)
             ELSE IsDayOfMonth(probe.result.at, y + 1, probe.m, probe.d, probe.h, probe.mi)

(***************************************************************************)
(* Date fields of an instant (local time; 1 January 2026 is a Thursday).   *)
(***************************************************************************)
\* Date.getDay: 0 for Sunday .. 6 for Saturday
GetDay(t) == ((t \div 86400) + 4) % 7

RECURSIVE MonthFrom(_, _, _)
MonthFrom(t, y, m0) ==
    IF t < MakeDate(y, m0 + 1, 1, 0, 0) THEN m0 ELSE MonthFrom(t, y, m0 + 1)
\* Date.getMonth and Date.getDate
GetMonth(t) == MonthFrom(t, GetFullYear(t), 0)
GetDate(t) == ((t - MakeDate(GetFullYear(t), GetMonth(t), 1, 0, 0)) \div 86400) + 1

\* Date.setHours(hour, minute, 0, 0), Date.setDate(n), Date.setMonth(m0) and
\* Date.setFullYear(y): the other fields are kept, and a day or a month out
\* of range is carried over
SetHours(t, hour, minute) == (t \div 86400) * 86400 + (hour * 60 + minute) * 60
SetDate(t, n) == MakeDate(GetFullYear(t), GetMonth(t), n, 0, 0) + (t % 86400)
SetMonth(t, m0) == MakeDate(GetFullYear(t), m0, GetDate(t), 0, 0) + (t % 86400)
SetFullYear(t, y) == MakeDate(y, GetMonth(t), GetDate(t), 0, 0) + (t % 86400)

(***************************************************************************)
(* booker.ts, the revision that resolves a date without a month from the   *)
(* weekday of the slot: ResamaniaSlotBooker.parseSlotDateTime(slot).       *)
(***************************************************************************)
\* dateStr.match(/(\d{1,2})(?:\s+(\w+))?/): the index of the first number of
\* the text (0 when it has none) and of the word that follows it (0 if none)
DayNumberAt(dateStr) ==
    LET nums == {i \in 1..Len(dateStr) : dateStr[i].k = "num"}
    IN IF nums = {} THEN 0 ELSE CHOOSE i \in nums : \A j \in nums : i <= j
MonthNameAt(dateStr) ==
    LET i == DayNumberAt(dateStr)
        j == SkipWs(dateStr, i + 1)
    IN IF i # 0 /\ j > i + 1 /\ j <= Len(dateStr)
          /\ dateStr[j].k \in {"month", "day", "word", "num"}
       THEN j ELSE 0

\* dayOfWeekMap[slot.day_of_week.toLowerCase()]: << n >>, << >> for undefined
dayOfWeekMap(day_of_week) ==
    LET ns == {n \in 1..7 : days[n] = day_of_week}
    IN IF ns = {} THEN << >> ELSE << (CHOOSE n \in ns : TRUE) % 7 >>

\* daysUntil without the test of the time of day
daysUntilOfWeekdayOnly(targetDayOfWeek, hour, minute, now) ==
    (targetDayOfWeek - GetDay(now) + 7) % 7
\* lines 372-386: daysUntil
daysUntilOf(targetDayOfWeek, hour, minute, now) ==
    LET diff == targetDayOfWeek - GetDay(now)
    IN IF diff < 0 THEN diff + 7
       ELSE IF diff = 0 /\ SetHours(now, hour, minute) < now THEN 7
       ELSE diff

\* line 389: the first date computed from the weekday
firstSlotDate(targetDayOfWeek, hour, minute, now) ==
    SetDate(SetHours(now, hour, minute),
            GetDate(now) + daysUntilOf(targetDayOfWeek, hour, minute, now))

\* lines 391-400: the day number of the card is compared with that date
weekdaySlotDate(targetDayOfWeek, day, hour, minute, now) ==
    LET first == firstSlotDate(targetDayOfWeek, hour, minute, now)
    IN IF day # 0 /\ GetDate(first) # day
       THEN SetDate(first, GetDate(now)
                           + daysUntilOf(targetDayOfWeek, hour, minute, now) + 7)
       ELSE first

\* lines 311-417: << instant >>, << >> for null
slotParseSlotDateTime(date, time, day_of_week, now) ==
    LET i == DayNumberAt(date)
        j == MonthNameAt(date)
    IN IF i = 0 THEN << >>
       ELSE IF ~(Len(time) = 3 /\ time[1].k = "num" /\ time[2] = COLON
                 /\ time[3].k = "num")
       THEN << >>
       ELSE LET day == date[i].n
                hour == time[1].n
                minute == time[3].n
                slotDate == SetHours(now, hour, minute)
                target == dayOfWeekMap(day_of_week)
            IN IF j # 0
               THEN IF date[j].k = "month"
                    THEN LET dated == SetDate(SetMonth(slotDate, date[j].n - 1), day)
                         IN IF dated < now
                            THEN << SetFullYear(dated, GetFullYear(dated) + 1) >>
                            ELSE << dated >>
                    ELSE << slotDate >>
               ELSE IF target # << >>
                    THEN << weekdaySlotDate(target[1], day, hour, minute, now) >>
                    ELSE LET dated == SetDate(slotDate, day)
                         IN IF dated < now
                            THEN << SetMonth(dated, GetMonth(dated) + 1) >>
                            ELSE << dated >>

(***************************************************************************)
(* ResamaniaSlotBooker.parseSlotDateTime(slot) called directly on a slot   *)
(* whose date has no month.                                                *)
(***************************************************************************)
\* the calls explored: every weekday, day numbers that agree or not with
\* the date the weekday gives, two times, and the clock on Monday 16
\* November 2026 09:00, Saturday 28 November 10:00, Monday 30 November at
\* 12:30:00 and 12:30:30, and Thursday 31 December 20:00
WeekdayCalls ==
    {[wd |-> wd, day |-> day, h |-> t[1], mi |-> t[2], now |-> now] :
        wd \in 1..7, day \in {1, 5, 7, 8, 23, 30},
        t \in {<< 8, 0 >>, << 12, 30 >>},
        now \in {MakeDate(2026, 10, 16, 9, 0), MakeDate(2026, 10, 28, 10, 0),
                 MakeDate(2026, 10, 30, 12, 30), MakeDate(2026, 10, 30, 12, 30) + 30,
                 MakeDate(2026, 11, 31, 20, 0)}}

WeekdayInit ==
    /\ procState = "running"
    /\ exitCode = << >>
    /\ started = FALSE
    /\ config = MatchConfig(<< TargetCAF >>, << >>, << >>)
    /\ site = "plain"
    /\ sessionFile = << >>
    /\ run = [r \in RunIds |-> IdleRun]
    /\ \E c \in WeekdayCalls :
          /\ clock = c.now
          /\ probe = [op |-> "slot", wd |-> c.wd, day |-> c.day, h |-> c.h, mi |-> c.mi,
                      date |-> << DayTok(c.wd, "Cap"), SP,
                                  NumTok(c.day, IF c.day < 10 THEN 1 ELSE 2) >>,
                      time |-> TimeText(c.h, c.mi), day_of_week |-> days[c.wd],
                      daysUntil |-> 0, first |-> 0, result |-> << >>]

\* parseSlotDateTime(slot) is called; daysUntil and the date of line 389
\* are the locals of the call
WeekdayCall ==
    /\ probe.op = "slot"
    /\ LET target == dayOfWeekMap(probe.day_of_week)[1]
       IN probe' = [probe EXCEPT
                       !.op = "resolved",
                       !.daysUntil = daysUntilOf(target, probe.h, probe.mi, clock),
                       !.first = firstSlotDate(target, probe.h, probe.mi, clock),
                       !.result = slotParseSlotDateTime(probe.date, probe.time,
                                                        probe.day_of_week, clock)]
    /\ UNCHANGED << procState, exitCode, started, clock, config, site, sessionFile, run >>

WeekdayNext == WeekdayCall

WeekdaySpec == WeekdayInit /\ [][WeekdayNext]_vars

(***************************************************************************)
(* Properties of the weekday-driven date resolution.                       *)
(***************************************************************************)
\* the slot's weekday is that of the clock, and its time of day has passed
SameWeekday == probe.wd % 7 = ((clock \div 86400) + 4) % 7
TimePassed == (probe.h * 60 + probe.mi) * 60 < clock % 86400

\* the instant d days after the day of the clock, at the slot's time
DaysAhead(d) == ((clock \div 86400) + d) * 86400 + (probe.h * 60 + probe.mi) * 60

\* C31 (as claimed): the first computed date is now + d days, where d = 0 if
\* the weekday is today and the slot's time has not passed, and otherwise d
\* is the distance to the next matching weekday with 1 <= d <= 6; d is never
\* greater than 6.
C31_FirstDateWithinSixDays ==
    probe.op = "resolved" =>
        /\ probe.daysUntil \in 0..6
        /\ probe.daysUntil = 0 <=> (SameWeekday /\ ~TimePassed)
        /\ probe.first = DaysAhead(probe.daysUntil)

\* C31 (amended): the first computed date is now + d days at the slot's
\* time, where d = 0 if the weekday is today and the slot's time has not
\* passed, d = 7 if the weekday is today and the time has passed, and
\* otherwise d is the distance to the next matching weekday, 1 <= d <= 6:
\* the first date is the earliest occurrence of that weekday and time that
\* is not before now.
C31_FirstDateNextOccurrence ==
    probe.op = "resolved" =>
        /\ probe.daysUntil \in 0..7
        /\ probe.daysUntil = 0 <=> (SameWeekday /\ ~TimePassed)
        /\ probe.daysUntil = 7 <=> (SameWeekday /\ TimePassed)
        /\ probe.first = DaysAhead(probe.daysUntil)
        /\ ((probe.first \div 86400) + 4) % 7 = probe.wd % 7
        /\ probe.first >= clock
        /\ probe.first - 7 * 86400 < clock

C31_Witness ==
    /\ probe.op = "resolved"
    /\ clock = MakeDate(2026, 10, 30, 12, 30) + 30
    /\ probe.day_of_week = "Monday"
    /\ probe.h = 12 /\ probe.mi = 30
    /\ probe.daysUntil = 7
    /\ probe.first = MakeDate(2026, 11, 7, 12, 30)

\* C32: when the day number of the card differs from the day of the month
\* of the first computed date, the returned instant is exactly 7 days after
\* the first computed date, at the same time of day, also when the first
\* computed date falls in the next month; the result is accepted (an
\* instant is returned) whether or not it then agrees with the day number.
C32_DisagreementAddsOneWeek ==
    probe.op = "resolved" =>
        /\ probe.result # << >>
        /\ probe.day # GetDate(probe.first)
              => probe.result[1] = probe.first + 7 * 86400
        /\ probe.day = GetDate(probe.first) => probe.result[1] = probe.first

(***************************************************************************)
(* Properties of a run as a whole.                                         *)
(***************************************************************************)
\* C33: at every exit of the retry loop the cumulative totalBookedCount is
\* the bookedCount of the last booking pass (every earlier pass added 0);
\* it is positive iff the loop is left through the success break, and the
\* attempt count reported is the number of iterations started: the counter
\* is 0 at the loop's entry and moves only by +1 when an iteration starts.
C33_TotalIsLastPassCount ==
    /\ [][\A r \in RunIds :
            (PassDone(run[r]) /\ run'[r].pc \in {"loop", "summary"})
            => /\ run[r].totalBookedCount = 0
               /\ run'[r].totalBookedCount = run[r].bookedCount
               /\ run'[r].pc = "summary" <=> run[r].bookedCount > 0]_vars
    /\ [][\A r \in RunIds :
            (run'[r].pc = "summary" /\ run[r].pc # "summary")
            => \/ run[r].pc = "book" /\ run'[r].totalBookedCount > 0
               \/ /\ run[r].pc = "loop" /\ run'[r].totalBookedCount = 0
                  /\ run[r].attemptNumber = run[r].maxRetries]_vars
    /\ [][\A r \in RunIds :
            (InAttemptLoop(run[r]) /\ (InAttemptLoop(run'[r]) \/ run'[r].pc = "summary"))
            => run'[r].attemptNumber =
                  IF run[r].pc = "loop" /\ run'[r].pc \in {"reload", "list"}
                  THEN run[r].attemptNumber + 1 ELSE run[r].attemptNumber]_vars
    /\ [][\A r \in RunIds :
            (run'[r].pc = "loop" /\ ~InAttemptLoop(run[r]))
            => run'[r].attemptNumber = 0 /\ run'[r].totalBookedCount = 0]_vars

C33_Witness ==
    /\ run["cli"].pc = "summary"
    /\ run["cli"].maxRetries = DEFAULT_MAX_RETRIES
    /\ run["cli"].attemptNumber = 3
    /\ run["cli"].totalBookedCount = 2

\* C34: every extraction pass runs against the planning page: whenever
\* listSlots is about to be called, the last navigation the run made was to
\* the planning URL, also in attempt 1 of a run that had to log in.
C34_ListingOnPlanningPage ==
    \A r \in RunIds : run[r].pc = "list" => run[r].lastNav = "planning"

\* C35: when the run is on the login page and loginBrowser returns false,
\* nothing is listed, matched or booked: the only step left is the one that
\* closes the browser and returns, the run stays returned, the process keeps
\* running through it and, when it ends, ends with status 0.
C35_LoginFailureEndsRunQuietly ==
    /\ [](\A r \in RunIds :
            run[r].pc = "loginFailed"
            => /\ run[r].attemptNumber = 0 /\ run[r].allSlots = << >>
               /\ run[r].matchingSlots = << >> /\ run[r].clicked = {}
               /\ run[r].bookedCount = 0)
    /\ [][\A r \in RunIds :
            (run[r].pc = "loginFailed" /\ run'[r] # run[r])
            => /\ run'[r] = [run[r] EXCEPT !.pc = "returned", !.browser = "closed"]
               /\ procState' = "running" /\ exitCode' = << >>]_vars
    /\ [][run["cli"].pc = "returned"
          => /\ run'["cli"] = run["cli"]
             /\ exitCode' \in {<< >>, << 0 >>}]_vars

\* loginBrowser has gone to the login URL and returned false
C35_Witness ==
    /\ run["cli"].pc = "loginFailed" /\ run["cli"].lastNav = "login"
    /\ run["cli"].browser = "open" /\ procState = "running"

\* C36: on every path by which run ends after the browser was launched (the
\* failed login, the exhausted loop, a booking, an exception inside the run),
\* the browser is closed before run returns and before the process exits;
\* it is never launched when run rejects at the launch.
C36_BrowserClosedOnEveryPath ==
    /\ [](run["cli"].pc \in {"returned", "exit"} => run["cli"].browser = "closed")
    /\ [](procState = "exited" => run["cli"].browser \in {"closed", "none"})
    /\ [](run["cli"].browser = "none" => run["cli"].pc \in {"start", "rejected"})
    /\ [][run'["cli"].pc \in {"returned", "exit"} /\ run["cli"].pc # run'["cli"].pc
          => /\ run["cli"].browser = "open"
             /\ run["cli"].pc \in {"loginFailed", "summary", "catch"}]_vars

\* an exception inside the loop has ended the process
C36_Witness ==
    /\ procState = "exited" /\ exitCode = << CATCH_EXIT_STATUS >>
    /\ run["cli"].pc = "exit" /\ run["cli"].browser = "closed"
    /\ run["cli"].lastNav = "planning"

(***************************************************************************)
(* auth.ts: getStorageState called on one session file at one instant.     *)
(***************************************************************************)
\* the session files of a call: none, or one with or without storage_state
\* and with no expires_at, a date, or a text that is not a date
StoredSessions ==
    {<< >>} \cup
    { << [storage_state |-> s, expires_at |-> e] >> :
        s \in BOOLEAN,
        e \in {<< >>, << NOT_A_DATE >>} \cup
              { << IsoText(MakeDate(2026, 11, d, 0, 0)) >> : d \in {1, 2} } }

\* the instants of a call: before, at and after the dates above
SessionClocks ==
    { MakeDate(2026, 10, 30, 12, 0), MakeDate(2026, 11, 1, 0, 0),
      MakeDate(2026, 11, 1, 0, 0) + 1, MakeDate(2026, 11, 1, 12, 0),
      MakeDate(2026, 11, 2, 0, 0), MakeDate(2026, 11, 2, 0, 0) + 1,
      MakeDate(2026, 11, 3, 9, 0) }

SessionInit ==
    /\ procState = "running"
    /\ exitCode = << >>
    /\ started = FALSE
    /\ site = "plain"
    /\ clock \in SessionClocks
    /\ config \in {c \in Configs : c.login_url}
    /\ sessionFile \in StoredSessions
    /\ run = [r \in RunIds |-> IdleRun]
    /\ probe = [op |-> "session"]

\* new ResamaniaAuth() reads the file, getStorageState() answers
SessionCall ==
    /\ probe.op = "session"
    /\ probe' = [op |-> "state", sessionData |-> loadSession(sessionFile),
                 storageState |-> getStorageState(loadSession(sessionFile), clock)]
    /\ UNCHANGED << procState, exitCode, started, clock, config, site, sessionFile, run >>

SessionNext == SessionCall

SessionSpec == SessionInit /\ [][SessionNext]_vars

\* C37: getStorageState returns the stored storage_state iff a session was
\* loaded, it holds a storage_state, and either it has no expires_at or the
\* instant of the call is strictly before expires_at; otherwise it returns
\* null.
C37_StateLoadedIffStillValid ==
    probe.op = "state"
    => (probe.storageState
        <=> /\ probe.sessionData # << >>
            /\ probe.sessionData[1].storage_state
            /\ \/ probe.sessionData[1].expires_at = << >>
               \/ /\ NewDate(probe.sessionData[1].expires_at[1]) # << >>
                  /\ clock < NewDate(probe.sessionData[1].expires_at[1])[1])

(***************************************************************************)
(* utils.ts: the fields listSlots derives from the text of one card.       *)
(***************************************************************************)
\* a date written with the white space w between its parts
SpacedDate(d, form, w) ==
    << DayTok(d, form), WsTok(w), NumTok(2, 1), WsTok(w), MonthTok(12, form) >>

\* what else the text of the card says: nothing, a day, a day and a number
OtherMentions ==
    {<< >>} \cup
    { << WordTok("Next:"), SP, DayTok(e, "Cap") >> : e \in {1, 2, 5} } \cup
    { << WordTok("Next:"), SP, DayTok(e, "Cap"), SP, NumTok(n, 1) >> :
        e \in {1, 2, 5}, n \in {7, 9} }

\* the card texts: a date in any letter case and white space, a further
\* mention before or after it; and texts without a date
FieldTexts ==
    { SpacedDate(d, form, w) \o << NL >> \o o :
        d \in {1, 3, 7}, form \in {"Cap", "lower", "UPPER"},
        w \in {" ", "  ", "\n"}, o \in OtherMentions } \cup
    { o \o << NL >> \o SpacedDate(d, "Cap", " ") :
        d \in {1, 3, 7}, o \in OtherMentions } \cup
    { o \o << NL, WordTok("Signed up") >> : o \in OtherMentions }

FieldsInit ==
    /\ procState = "running"
    /\ exitCode = << >>
    /\ started = FALSE
    /\ clock = MakeDate(2026, 10, 29, 20, 0)
    /\ config = MatchConfig(<< TargetCAF >>, << >>, << >>)
    /\ site = "plain"
    /\ sessionFile = << >>
    /\ run = [r \in RunIds |-> IdleRun]
    /\ \E text \in FieldTexts : probe = [op |-> "card", cardText |-> text]

\* lines 776-778 and 796 of listSlots on the text of the card
FieldsCall ==
    /\ probe.op = "card"
    /\ LET dateText == extractDateFromCardText(probe.cardText)
       IN probe' = [op |-> "fields", cardText |-> probe.cardText,
                    date |-> dateText,
                    day_of_week |-> extractDayOfWeekFromCardText(probe.cardText),
                    at |-> parseSlotDateTime(dateText, TimeText(18, 30), clock)]
    /\ UNCHANGED << procState, exitCode, started, clock, config, site, sessionFile, run >>

FieldsNext == FieldsCall

FieldsSpec == FieldsInit /\ [][FieldsNext]_vars

\* C38: the two fields derived from the text of a card agree: when
\* extractDateFromCardText returns a date, its day name is, whatever its
\* letter case, the day extractDayOfWeekFromCardText returns, also when the
\* text names another day followed by digits.
C38_DateAndDayOfWeekAgree ==
    (probe.op = "fields" /\ probe.date # UnknownText)
    => days[probe.date[1].n] = probe.day_of_week

\* C39: every date that extractDateFromCardText returns, whatever white space
\* separates its parts and whatever its letter case, is resolved by
\* parseSlotDateTime with a valid time to an instant, without throwing.
C39_ExtractedDateResolves ==
    (probe.op = "fields" /\ probe.date # UnknownText) => ~probe.at.threw

=============================================================================
